---- MODULE Spec2Model ----
(***************************************************************************)
(* Model of the MCP skill server core: the execution sandbox               *)
(* (core/executor.py, core/uma_core.py), the provider adapters' chat loops *)
(* (adapters/*_adapter.py), the session memory (core/session.py), the HTTP *)
(* handlers (router.py), the skill registry and the dynamic tool injection *)
(* (adapters/__init__.py).                                                 *)
(* Each component has its own specification over the shared variables:     *)
(* SandboxSpec, AdapterSpec, SessionSpec, RouterSessionSpec, ServerSpec,   *)
(* RegistrySpec, SelectSpec, AgentSpec, HandoffSpec, DispatchSpec;         *)
(* AdapterFairSpec is AdapterSpec with weak fairness on the steps of a     *)
(* turn.                                                                   *)
(***************************************************************************)
EXTENDS Integers, Sequences, FiniteSets, TLC

VARIABLES
    \* ---- execution sandbox ----
    fs,          \* the files on disk (absolute, resolved paths)
    call,        \* the sandbox operation last invoked and its inputs
    result,      \* the dict that operation returned
    accessLog,   \* filesystem accesses made on behalf of that call, in order
    tempFile,    \* the temp argument file of run_script
    child,       \* the child process of run_script when the call returns
    payload,     \* the keys of the returned dict other than "status"
    http,        \* HTTP status the router endpoint answered with (0: no endpoint)
    channels,    \* what run_script handed the child: environment, stdin, temp file
    \* ---- provider adapters: one chat turn ----
    turn,            \* which adapter method runs, and how it was entered
    pc,              \* position inside that method
    iter,            \* iterations of the for-loop completed
    requests,        \* provider requests sent in this turn
    toolRequests,    \* those of them that carried tool definitions
    dispatched,      \* uma.execute_tool_call invocations in this turn
    tool_calls_made, \* the adapter's own counter
    pending,         \* tool calls of the current response not yet looked at
    tool_results,    \* results collected in the current round
    fed,             \* tool results handed to the provider-native history
    lastTool,        \* the call dispatched last and the status it returned
    afterApproval,   \* requests, dispatches and feeds made after a requires_approval result
    raised,          \* the provider request of this turn that raised, if one did
    chatResult,      \* what the method returned
    \* ---- session memory ----
    conversations,   \* SessionManager._conversations: session id -> message list
    nextContent,     \* serial number the next appended message carries as content
    directAppends,   \* append_message calls made outside a /chat turn
    lastAppend,      \* the append_message call the last operation made: the list
                     \* right after the append and the list left in the table
    memoryTail,      \* what the last operation appended to MEMORY.md
    \* ---- HTTP server: requests in flight ----
    loop,            \* the request whose handler occupies the event loop ("none": free)
    reqs,            \* request id -> the handler's kind, session id and position
    listGen,         \* session id -> identity of the list object the table holds
    \* ---- skill registry ----
    disk,            \* directory name -> the bundle on disk
    skills,          \* SkillRegistry.skills: directory name -> entry
    manifest,        \* ids written to skills_manifest.json
    scanner,         \* the scan in progress: the directories still to visit
    observed,        \* what the last reader of the table saw
    lastScan,        \* the last scan completed, against the one before it
    justScanned,     \* nothing has touched the disk or the table since that scan
    dirty,           \* the disk was changed since the last scan completed
    \* ---- dynamic tool injection ----
    lexicon,         \* _STOP_WORDS and _SYNONYM_MAP as the import left them
    user_query,      \* the text of the user's message
    all_tools,       \* the tool definitions of the registry, in discovery order
    max_tools,       \* the most tool definitions the adapter sends
    selection,       \* the call made last and the list it returned
    \* ---- auto_agent: the interactive loop ----
    conversation_history,  \* the message list of main()
    agent,           \* position in the loop, model order, active adapter, turn count
    \* ---- agent mode: what the first provider request carries ----
    handoff          \* the caller's history and utterance, and the messages sent

sandboxVars == <<fs, call, result, accessLog, tempFile, child, payload, http, channels>>

adapterVars == <<turn, pc, iter, requests, toolRequests, dispatched, tool_calls_made,
                 pending, tool_results, fed, lastTool, afterApproval, raised, chatResult>>

sessionVars == <<conversations, nextContent, directAppends, lastAppend, memoryTail>>

serverVars == <<loop, reqs, listGen>>

\* the variables of the components added after the first three
registryVars == <<disk, skills, manifest, scanner, observed, lastScan, justScanned, dirty>>

selectVars == <<lexicon, user_query, all_tools, max_tools, selection>>

agentVars == <<conversation_history, agent>>

handoffVars == <<handoff>>

extVars == <<serverVars, registryVars, selectVars, agentVars, handoffVars>>

vars == <<sandboxVars, adapterVars, sessionVars, extVars>>

(***************************************************************************)
(* Paths.  A file name is a sequence of string tokens, so that the string  *)
(* prefix test of str.startswith can be computed: "skills_backup" is       *)
(* <<"skills", "_backup">> and has "skills" = <<"skills">> as a prefix.    *)
(* A path is a sequence of names, read from the filesystem root.  An input *)
(* path (skill id, resource name) is [abs, parts].                         *)
(***************************************************************************)
DotDot == <<"..">>

Rel(parts) == [abs |-> FALSE, parts |-> parts]

Abs(parts) == [abs |-> TRUE, parts |-> parts]

\* pathlib's "/" operator: an absolute right operand replaces the left one
PJoin(a, b) == IF b.abs THEN b ELSE [abs |-> a.abs, parts |-> a.parts \o b.parts]

RECURSIVE ResolveFrom(_, _)
ResolveFrom(cur, rest) ==
    IF rest = <<>> THEN cur
    ELSE IF Head(rest) = DotDot
         THEN ResolveFrom(IF cur = <<>> THEN cur ELSE SubSeq(cur, 1, Len(cur) - 1),
                          Tail(rest))
         ELSE ResolveFrom(Append(cur, Head(rest)), Tail(rest))

\* Path.resolve() of an absolute path (the modelled disk has no symlinks)
Resolve(parts) == ResolveFrom(<<>>, parts)

IsPrefix(s, t) == Len(s) <= Len(t) /\ SubSeq(t, 1, Len(s)) = s

\* ExecutionEngine.skills_home, already resolved by __init__
skills_home == << <<"proj">>, <<"skills">> >>

\* str(abs_path).startswith(str(home)): a character-level prefix test, so the
\* last component of home only has to be a prefix of the component of p at
\* that position
StrStartsWith(p, home) ==
    /\ Len(p) >= Len(home)
    /\ SubSeq(p, 1, Len(home) - 1) = SubSeq(home, 1, Len(home) - 1)
    /\ IsPrefix(home[Len(home)], p[Len(home)])

\* ExecutionEngine.sanitize_path: the resolved absolute path of the target
SanitizedPath(target) == Resolve(PJoin(Abs(skills_home), target).parts)

\* ExecutionEngine.sanitize_path: TRUE when it returns, FALSE when it raises
\* PermissionError
SanitizeOk(target) == StrStartsWith(SanitizedPath(target), skills_home)

(***************************************************************************)
(* The disk.  Files are absolute resolved paths; a directory exists when   *)
(* some file lies below it.                                                *)
(***************************************************************************)
NmAlpha == <<"alpha">>
NmBeta == <<"beta">>
NmGhost == <<"ghost">>
NmOld == <<"old">>
NmEtc == <<"etc">>
NmBackup == <<"skills", "_backup">>
NmScripts == <<"scripts">>
NmRefs == <<"references">>
NmMainPy == <<"main.py">>
NmSkillMd == <<"SKILL.md">>
NmATxt == <<"a.txt">>
NmBTxt == <<"b.txt">>
NmPasswd == <<"passwd">>

\* alpha: an executable skill; beta: a knowledge skill (manifest, no script)
FilesInHome ==
    { skills_home \o <<NmAlpha, NmScripts, NmMainPy>>,
      skills_home \o <<NmAlpha, NmSkillMd>>,
      skills_home \o <<NmAlpha, NmRefs, NmATxt>>,
      skills_home \o <<NmBeta, NmSkillMd>>,
      skills_home \o <<NmBeta, NmRefs, NmBTxt>> }

\* a sibling of the skills home whose name begins with the home's name (the
\* repository ships skills_backup/ beside skills/), and a system file
FilesOutside ==
    { << <<"proj">>, NmBackup, NmOld, NmScripts, NmMainPy >>,
      << <<"proj">>, NmBackup, NmOld, NmSkillMd >>,
      << <<"proj">>, NmBackup, NmOld, NmRefs, NmATxt >>,
      << NmEtc, NmPasswd >> }

FsConfigs == { FilesInHome \cup FilesOutside, FilesInHome \cup { << NmEtc, NmPasswd >> } }

IsFile(files, p) == p \in files

IsDir(files, p) == \E f \in files : Len(f) > Len(p) /\ SubSeq(f, 1, Len(p)) = p

RECURSIVE OsExistsFrom(_, _, _)
OsExistsFrom(files, cur, rest) ==
    IF rest = <<>> THEN IsFile(files, cur) \/ IsDir(files, cur)
    ELSE IF Head(rest) = DotDot
         THEN /\ IsDir(files, cur)
              /\ OsExistsFrom(files,
                              IF cur = <<>> THEN cur ELSE SubSeq(cur, 1, Len(cur) - 1),
                              Tail(rest))
         ELSE OsExistsFrom(files, Append(cur, Head(rest)), Tail(rest))

\* Path.exists() of an absolute, possibly unresolved path: the kernel walks
\* the components, so every directory left through ".." has to exist
PathExists(files, parts) == OsExistsFrom(files, <<>>, parts)

\* one filesystem access on a path located from the skill id, the script
\* path or the resource name; path is where the access lands
Access(op, parts) == [op |-> op, path |-> Resolve(parts)]

(***************************************************************************)
(* Inputs of the sandbox operations.                                       *)
(***************************************************************************)
\* skill ids: registered names, an unknown name, "../../etc", a sibling
\* directory reached through "../skills_backup/old", the absolute "/etc"
SkillIds ==
    { Rel(<<NmAlpha>>), Rel(<<NmBeta>>), Rel(<<NmGhost>>),
      Rel(<<DotDot, DotDot, NmEtc>>),
      Rel(<<DotDot, NmBackup, NmOld>>),
      Abs(<<NmEtc>>) }

\* resource names: own files, a missing file, another skill's file through
\* "../../beta/...", a system file through "../" and as an absolute path
ResourceNames ==
    { Rel(<<NmATxt>>), Rel(<<NmBTxt>>), Rel(<<<<"missing.txt">>>>),
      Rel(<<DotDot, DotDot, NmBeta, NmRefs, NmBTxt>>),
      Rel(<<DotDot, DotDot, DotDot, DotDot, DotDot, NmEtc, NmPasswd>>),
      Abs(<<NmEtc, NmPasswd>>) }

LowerCase == <<"a", "b", "c", "d", "e", "f", "g", "h", "i", "j", "k", "l", "m", "n", "o", "p", "q", "r", "s", "t", "u", "v", "w", "x", "y", "z">>

UpperCase == <<"A", "B", "C", "D", "E", "F", "G", "H", "I", "J", "K", "L", "M", "N", "O", "P", "Q", "R", "S", "T", "U", "V", "W", "X", "Y", "Z">>

\* an argument value: its JSON text (json.dumps) and its str() text
Value(json, str) == [json |-> json, str |-> str]

\* a JSON string value: quoted in the serialized map, bare under str()
StrValue(text) == Value(<<"\"">> \o text \o <<"\"">>, text)

KeyText == <<"t", "e", "x", "t">>
KeyMode == <<"m", "o", "d", "e">>
KeyModeCapital == <<"M", "o", "d", "e">>
KeyFile == <<"f", "i", "l", "e">>

\* argument maps (dicts in insertion order), as sequences of <<key, value>>
\* with distinct keys: empty; a boolean beside a path; two keys that differ
\* only in letter case beside a key named "file"
ArgMaps ==
    { <<>>,
      << <<KeyText, Value(<<"true">>, <<"True">>)>>, <<KeyMode, StrValue(<<"/", "e", "t", "c">>)>> >>,
      << <<KeyMode, StrValue(<<"a">>)>>, <<KeyModeCapital, StrValue(<<"b">>)>>,
         <<KeyFile, StrValue(<<"x">>)>> >> }

UpperOf == [c \in {LowerCase[i] : i \in 1..26} |->
               UpperCase[CHOOSE i \in 1..26 : c = LowerCase[i]]]

\* str.upper() on one character
UpperChar(c) == IF c \in DOMAIN UpperOf THEN UpperOf[c] ELSE c

Upper(text) == [i \in 1..Len(text) |-> UpperChar(text[i])]

\* f"SKILL_PARAM_{key.upper()}"
EnvName(key) == <<"SKILL_PARAM_">> \o Upper(key)

SKILL_PARAM_FILE == <<"SKILL_PARAM_", "F", "I", "L", "E">>

\* the name NamedTemporaryFile gave the temp argument file
TempName == <<"skill_params_", ".json">>

\* json.dumps(args): the members of the serialized object, in order
Dumps(args) == [i \in 1..Len(args) |-> <<args[i][1], args[i][2].json>>]

\* current_env after channel 1 and channel 3, restricted to the SKILL_PARAM_*
\* names: one assignment per argument in order, then SKILL_PARAM_FILE
ParamEnv(args) ==
    LET names == {EnvName(args[i][1]) : i \in 1..Len(args)} \cup {SKILL_PARAM_FILE}
        Last(n) == CHOOSE i \in 1..Len(args) :
                       /\ EnvName(args[i][1]) = n
                       /\ \A j \in 1..Len(args) : EnvName(args[j][1]) = n => j <= i
    IN  [n \in names |-> IF n = SKILL_PARAM_FILE THEN TempName ELSE args[Last(n)][2].str]

\* the three channels run_script prepared before Popen
Channels(args) ==
    [prepared |-> TRUE, args |-> args, env |-> ParamEnv(args), stdin |-> Dumps(args),
     file |-> Dumps(args)]

NoChannels ==
    [prepared |-> FALSE, args |-> <<>>, env |-> <<>>, stdin |-> <<>>, file |-> <<>>]

\* the call reached Popen
Spawned(log) == \E i \in DOMAIN log : log[i].op = "spawn"

\* what the child process does once spawned: exits 0, exits non-zero, runs
\* past the timeout, or cannot be spawned at all (Popen raises OSError)
ChildOutcomes == {"exit0", "nonzero", "timeout", "oserror"}

\* text is a sequence of characters
Whitespace == {" ", "\n"}

\* str.strip()
Strip(text) ==
    LET keep == {i \in DOMAIN text : text[i] \notin Whitespace}
    IN  IF keep = {} THEN <<>>
        ELSE SubSeq(text, CHOOSE i \in keep : \A j \in keep : i <= j,
                          CHOOSE i \in keep : \A j \in keep : j <= i)

\* what communicate() hands back for a child that exited: the two captured
\* streams and Popen.returncode (negative when a signal ended the child)
Proc(stdout, stderr, returncode) ==
    [stdout |-> stdout, stderr |-> stderr, returncode |-> returncode]

NoProc == Proc(<<>>, <<>>, 0)

\* the children of the model: silent, output padded with whitespace, output
\* on both streams, a child ended by a signal
ChildRuns(outcome) ==
    CASE outcome = "exit0" ->
             { Proc(<<" ", "o", "k", "\n">>, <<>>, 0),
               Proc(<<"\n">>, <<"e", "r", "r", "\n">>, 0) }
      [] outcome = "nonzero" ->
             { Proc(<<" ", "o", "k", "\n">>, <<"e", "r", "r", "\n">>, -9),
               Proc(<<>>, <<" ", "e", "r", "r">>, 1) }
      [] OTHER -> {NoProc}

\* a returned dict: body holds its keys other than "status"; log and temp are
\* what the call did to the disk
Res(status, kind, log, temp) ==
    [status |-> status, kind |-> kind, log |-> log, temp |-> temp, body |-> <<>>]

WithBody(r, body) == [r EXCEPT !.body = body]

\* run_script after communicate() returned within the timeout
ExitedIgnoringCode(proc, log, temp) ==
    WithBody(Res("success", "output", log, temp),
             [output |-> Strip(proc.stdout), exit_code |-> 0])

Exited(proc, log, temp) ==
    IF proc.returncode = 0
    THEN WithBody(Res("success", "output", log, temp),
                  [output |-> Strip(proc.stdout), exit_code |-> 0])
    ELSE WithBody(Res("failed", "nonzero", log, temp),
                  [message |-> "Script execution returned non-zero exit code.",
                   stdout |-> Strip(proc.stdout), stderr |-> Strip(proc.stderr),
                   exit_code |-> proc.returncode])

\* the finally block of run_script: os.unlink removes the temp file, or, held
\* open by a process on a platform that refuses to remove an open file, it
\* raises and the exception is passed over
Unlink(held) == IF held THEN "left" ELSE "removed"

\* what run_script returns when communicate runs past the timeout
TimeoutResultAsFailed(log, temp) == Res("failed", "timeout", log, temp)

TimeoutResult(log, temp) == Res("error", "timeout", log, temp)

\* the child when run_script returns: never spawned, reaped by communicate,
\* or killed after the timeout
ChildFate(log, outcome) ==
    IF \A i \in DOMAIN log : log[i].op # "spawn" THEN "none"
    ELSE CASE outcome \in {"exit0", "nonzero"} -> "exited"
           [] outcome = "timeout" -> "killed"
           [] OTHER -> "none"

\* ExecutionEngine.run_script.  log: the accesses on id-derived paths; temp:
\* the temp argument file when the call returns
RunScript(files, skill_name, script_relative_path, outcome, held, proc) ==
    LET script_in == PJoin(PJoin(skill_name, Rel(<<NmScripts>>)), script_relative_path)
        script_path == SanitizedPath(script_in)
        seen == <<Access("exists", script_path)>>
        run == Append(seen, Access("spawn", script_path))
    IN  IF ~SanitizeOk(skill_name) \/ ~SanitizeOk(script_in)
        THEN Res("security_violation", "permission", <<>>, "none")
        ELSE IF ~PathExists(files, script_path)
        THEN Res("error", "script_not_found", seen, "none")
        ELSE CASE outcome \in {"exit0", "nonzero"} -> Exited(proc, run, Unlink(held))
               [] outcome = "timeout" -> TimeoutResult(run, Unlink(held))
               [] OTHER -> Res("error", "exception", run, Unlink(FALSE))

\* Path.read_text: the text of the file at parts
ReadText(parts) == <<"text of", Resolve(parts)>>

\* what execute_tool_call returns for a skill without scripts/main.py
KnowledgeGuideAsNotFound(skill_name, content, log) ==
    Res("error", "skill_not_found", log, "none")

KnowledgeGuide(skill_name, content, log) ==
    WithBody(Res("success", "knowledge_guide", log, "none"),
             [type |-> "knowledge_guide", skill |-> skill_name,
              message |-> "This is a knowledge-type skill.", guide |-> content])

\* UMA.execute_tool_call
ExecuteToolCallResult(files, skill_name, outcome, held, proc) ==
    LET home == Abs(skills_home)
        script_path == PJoin(PJoin(home, skill_name), Rel(<<NmScripts, NmMainPy>>)).parts
        skill_md_path == PJoin(PJoin(home, skill_name), Rel(<<NmSkillMd>>)).parts
        probe == <<Access("exists", script_path)>>
    IN  IF PathExists(files, script_path)
        THEN LET r == RunScript(files, skill_name, Rel(<<NmMainPy>>), outcome, held, proc)
             IN  [r EXCEPT !.log = probe \o r.log]
        ELSE IF PathExists(files, skill_md_path)
        THEN KnowledgeGuide(skill_name, ReadText(skill_md_path),
                            probe \o <<Access("exists", skill_md_path),
                                       Access("read", skill_md_path)>>)
        ELSE Res("error", "skill_not_found",
                 Append(probe, Access("exists", skill_md_path)), "none")

\* inputs execute_tool_call is not written for: a skill_name that is not a
\* str, arguments that decode to a list, a SKILL.md that cannot be read (a
\* directory of that name, or no read permission)
Faults == {"none", "skill_name_not_str", "args_not_dict", "skill_md_unreadable"}

\* UMA.execute_tool_call on such an input.  status "raised": the call did
\* not return, the exception named by kind reached the caller
ExecuteToolCallUnder(files, skill_name, outcome, held, proc, fault) ==
    LET normal == ExecuteToolCallResult(files, skill_name, outcome, held, proc)
        spawned == \E i \in DOMAIN normal.log : normal.log[i].op = "spawn"
    IN  CASE fault = "skill_name_not_str" ->
                 \* skills_home / skill_name, outside any try
                 Res("raised", "TypeError", <<>>, "none")
          [] fault = "skill_md_unreadable" /\ normal.kind = "knowledge_guide" ->
                 \* skill_md_path.read_text, outside any try
                 Res("raised", "OSError", normal.log, "none")
          [] fault = "args_not_dict" /\ spawned ->
                 \* args.items() inside run_script's try, before the temp
                 \* file and the child exist
                 Res("error", "exception", SubSeq(normal.log, 1, Len(normal.log) - 1), "none")
          [] OTHER -> normal

\* ExecutionEngine.read_resource and search_resource share their path
\* handling; kind_ok is what a successful call carries
ResourceResult(files, skill_name, resource_name, kind_ok) ==
    LET target == PJoin(PJoin(skill_name, Rel(<<NmRefs>>)), resource_name)
        res_path == SanitizedPath(target)
        seen == <<Access("exists", res_path)>>
    IN  IF ~SanitizeOk(target)
        THEN Res("error", "permission", <<>>, "none")
        ELSE IF ~PathExists(files, res_path)
        THEN Res("error", "resource_not_found", seen, "none")
        ELSE IF ~IsFile(files, res_path)
        THEN Res("error", "exception", seen, "none")   \* open() of a directory raises
        ELSE Res("success", kind_ok, Append(seen, Access("read", res_path)), "none")

\* ExecutionEngine.read_resource
ReadResourceResult(files, skill_name, resource_name) ==
    ResourceResult(files, skill_name, resource_name, "content")

\* ExecutionEngine.search_resource
SearchResourceResult(files, skill_name, resource_name) ==
    ResourceResult(files, skill_name, resource_name, "matches")

\* router.read_resource / router.search_resource: anything but success is
\* answered with HTTP 404
ResourceHttpStatus(r) == IF r.status # "success" THEN 404 ELSE 200

(***************************************************************************)
(* Provider adapters.  A turn is one call of chat or simple_chat; the      *)
(* provider's responses and the sandbox's results are inputs.              *)
(***************************************************************************)
MAX_ITERATIONS == 10

\* most tool calls a provider response carries in the model
MaxCallsPerRound == 3

Adapters == {"openai", "gemini", "claude"}

\* a tool call as the provider emits it
Calls == { [name |-> "alpha", args |-> "x"], [name |-> "beta", args |-> "y"] }

NoToolCall == [name |-> "", args |-> ""]

RECURSIVE SeqsUpTo(_, _)
SeqsUpTo(S, n) ==
    IF n = 0 THEN { <<>> }
    ELSE LET shorter == SeqsUpTo(S, n - 1)
         IN  shorter \cup { Append(q, x) : q \in shorter, x \in S }

\* a provider response: a final answer, a tool-call request, or the request
\* raising (network, auth, parse error)
Responses ==
    { [kind |-> "final", calls |-> <<>>], [kind |-> "raise", calls |-> <<>>] }
    \cup { [kind |-> "tools", calls |-> cs] : cs \in SeqsUpTo(Calls, MaxCallsPerRound) }

\* the dict uma.execute_tool_call hands back to an adapter: its status and
\* its risk_description ("" when the key is absent)
ToolResults ==
    { [status |-> st, risk |-> ""] :
          st \in {"success", "failed", "error", "security_violation", "requires_approval"} }
    \cup { [status |-> "requires_approval", risk |-> "deletes files"] }

NoToolResult == [status |-> "none", risk |-> ""]

NoTurn == [adapter |-> "none", mode |-> "none", entry |-> "none"]

NoChatResult ==
    [status |-> "none", kind |-> "none", tool_calls_made |-> 0,
     tool_name |-> "", risk_description |-> "", pending_args |-> ""]

ChatError(kind) ==
    [status |-> "error", kind |-> kind, tool_calls_made |-> 0,
     tool_name |-> "", risk_description |-> "", pending_args |-> ""]

ChatSuccess(kind, made) ==
    [status |-> "success", kind |-> kind, tool_calls_made |-> made,
     tool_name |-> "", risk_description |-> "", pending_args |-> ""]

\* result.get("risk_description", "High-risk operation detected")
RiskDescription(res) ==
    IF res.risk = "" THEN "High-risk operation detected" ELSE res.risk

\* the approval interrupt the three adapters build from the call c and its
\* result res
ApprovalInterrupt(c, res) ==
    [status |-> "requires_approval", kind |-> "interrupt", tool_calls_made |-> 0,
     tool_name |-> c.name, risk_description |-> RiskDescription(res),
     pending_args |-> c.args]

NoRaise == [seen |-> FALSE, requests |-> 0, dispatched |-> 0]

\* what the turn had done when a provider request raised
RaisedNow(resp, sent, calls) ==
    IF resp.kind = "raise" THEN [seen |-> TRUE, requests |-> sent, dispatched |-> calls]
    ELSE raised

\* the except Exception clause around the provider requests of chat and
\* simple_chat
CaughtNever(resp) == FALSE

Caught(resp) == resp.kind = "raise"

AdapterIdle ==
    /\ turn = NoTurn
    /\ pc = "idle"
    /\ iter = 0
    /\ requests = 0
    /\ toolRequests = 0
    /\ dispatched = 0
    /\ tool_calls_made = 0
    /\ pending = <<>>
    /\ tool_results = <<>>
    /\ fed = 0
    /\ lastTool = [call |-> NoToolCall, res |-> NoToolResult]
    /\ afterApproval = 0
    /\ raised = NoRaise
    /\ chatResult = NoChatResult

\* the state every turn starts from
BeginTurn(a, mode, entry) ==
    /\ turn' = [adapter |-> a, mode |-> mode, entry |-> entry]
    /\ iter' = 0
    /\ requests' = 0
    /\ toolRequests' = 0
    /\ dispatched' = 0
    /\ tool_calls_made' = 0
    /\ pending' = <<>>
    /\ tool_results' = <<>>
    /\ fed' = 0
    /\ lastTool' = [call |-> NoToolCall, res |-> NoToolResult]
    /\ afterApproval' = 0
    /\ raised' = NoRaise

\* whether the adapter's method takes the session_id / attached_file keywords
\* the /chat endpoint always passes
AcceptsRouterKwargs(a, mode) ==
    \/ a = "gemini"
    \/ a = "claude" /\ mode = "simple_chat"

\* chat() of ClaudeAdapter and GeminiAdapter returns early without a user
\* query; OpenAIAdapter.chat has no such check
NeedsUserQuery(a) == a \in {"claude", "gemini"}

\* POST /chat: picks the adapter, checks is_available, then calls chat
\* (execute) or simple_chat with **kwargs inside try/except
RouterChat(a, execute, available) ==
    LET mode == IF execute THEN "chat" ELSE "simple_chat"
    IN  /\ pc \in {"idle", "done"}
        /\ BeginTurn(a, mode, "router")
        /\ IF ~available
           THEN chatResult' = ChatError("unavailable") /\ pc' = "done"
           ELSE IF ~AcceptsRouterKwargs(a, mode)
           THEN chatResult' = ChatError("type_error") /\ pc' = "done"
           ELSE /\ chatResult' = NoChatResult
                /\ pc' = IF execute THEN "request" ELSE "simple"
        /\ UNCHANGED <<extVars, sandboxVars, sessionVars>>

\* auto_agent.run_with_adapter: adapter.chat called without extra keywords
DirectChat(a, available, has_query) ==
    /\ pc \in {"idle", "done"}
    /\ BeginTurn(a, "chat", "direct")
    /\ IF ~available
       THEN chatResult' = ChatError("unavailable") /\ pc' = "done"
       ELSE IF NeedsUserQuery(a) /\ ~has_query
       THEN chatResult' = ChatError("no_query") /\ pc' = "done"
       ELSE chatResult' = NoChatResult /\ pc' = "request"
    /\ UNCHANGED <<extVars, sandboxVars, sessionVars>>

\* counts what happens after a requires_approval result came back
Later(n) == IF lastTool.res.status = "requires_approval" THEN afterApproval + n ELSE afterApproval

InChat(a, at) == turn.adapter = a /\ turn.mode = "chat" /\ pc = at

\* a loop counter that leaves out the rounds whose tool call ended in an
\* error (a timeout among them)
NextIterationUnlessError(i) == IF lastTool.res.status = "error" THEN i ELSE i + 1

\* for _ in range(MAX_ITERATIONS): the count after one more pass of the body
NextIteration(i) == i + 1

\* ---- ClaudeAdapter.chat ----
ClaudeHaltsOnFailure(status) == status \in {"requires_approval", "failed"}

\* the test that ends the turn with the approval interrupt
ClaudeHalts(status) == status = "requires_approval"

\* a result collected without being counted
ClaudeCountSkipped(made) == made

\* tool_calls_made += 1 after a result was collected
ClaudeCount(made) == made + 1

\* self.client.messages.create at the head of the for-loop
ClaudeRequest(resp) ==
    /\ InChat("claude", "request")
    /\ requests' = requests + 1
    /\ raised' = RaisedNow(resp, requests + 1, dispatched)
    /\ toolRequests' = toolRequests + 1
    /\ afterApproval' = Later(1)
    /\ CASE Caught(resp) ->
              /\ chatResult' = ChatError("exception")
              /\ pc' = "done"
              /\ UNCHANGED <<pending, tool_results>>
         [] resp.kind = "tools" ->
              /\ pending' = resp.calls
              /\ tool_results' = <<>>
              /\ pc' = "dispatch"
              /\ UNCHANGED chatResult
         [] OTHER ->
              /\ chatResult' = ChatSuccess("text", tool_calls_made)
              /\ pc' = "done"
              /\ UNCHANGED <<pending, tool_results>>
    /\ UNCHANGED <<extVars, sandboxVars, sessionVars, turn, iter, dispatched, tool_calls_made, fed, lastTool>>

\* one tool_use block: execute_tool_call, the approval check, the append
ClaudeDispatch(res) ==
    /\ InChat("claude", "dispatch")
    /\ pending # <<>>
    /\ dispatched' = dispatched + 1
    /\ lastTool' = [call |-> Head(pending), res |-> res]
    /\ afterApproval' = Later(1)
    /\ IF ClaudeHalts(res.status)
       THEN /\ chatResult' = ApprovalInterrupt(Head(pending), res)
            /\ pc' = "done"
            /\ UNCHANGED <<pending, tool_results, tool_calls_made>>
       ELSE /\ tool_results' = Append(tool_results, res.status)
            /\ tool_calls_made' = ClaudeCount(tool_calls_made)
            /\ pending' = Tail(pending)
            /\ UNCHANGED <<chatResult, pc>>
    /\ UNCHANGED <<extVars, sandboxVars, sessionVars, turn, iter, requests, toolRequests, fed, raised>>

\* the two appends to claude_messages that close a round, and the loop test
ClaudeEndRound ==
    /\ InChat("claude", "dispatch")
    /\ pending = <<>>
    /\ fed' = fed + Len(tool_results)
    /\ afterApproval' = Later(Len(tool_results))
    /\ iter' = NextIteration(iter)
    /\ IF NextIteration(iter) >= MAX_ITERATIONS
       THEN chatResult' = ChatSuccess("cap", tool_calls_made) /\ pc' = "done"
       ELSE pc' = "request" /\ UNCHANGED chatResult
    /\ UNCHANGED <<extVars, sandboxVars, sessionVars, turn, requests, toolRequests, dispatched,
                   tool_calls_made, pending, tool_results, lastTool, raised>>

\* ---- OpenAIAdapter.chat ----
OpenAIHalts(status) == status = "requires_approval"

\* "tool_calls_made": len(tool_results)
OpenAIToolCallsMade(results) == Len(results)

\* the first chat.completions.create, with tools
OpenAIRequest(resp) ==
    /\ InChat("openai", "request")
    /\ requests' = requests + 1
    /\ raised' = RaisedNow(resp, requests + 1, dispatched)
    /\ toolRequests' = toolRequests + 1
    /\ afterApproval' = Later(1)
    /\ CASE Caught(resp) ->
              /\ chatResult' = ChatError("exception")
              /\ pc' = "done"
              /\ UNCHANGED <<pending, tool_results>>
         [] resp.kind = "tools" /\ resp.calls # <<>> ->
              /\ pending' = resp.calls
              /\ tool_results' = <<>>
              /\ pc' = "dispatch"
              /\ UNCHANGED chatResult
         [] OTHER ->
              /\ chatResult' = ChatSuccess("text", 0)
              /\ pc' = "done"
              /\ UNCHANGED <<pending, tool_results>>
    /\ UNCHANGED <<extVars, sandboxVars, sessionVars, turn, iter, dispatched, tool_calls_made, fed, lastTool>>

\* one entry of choice.message.tool_calls
OpenAIDispatch(res) ==
    /\ InChat("openai", "dispatch")
    /\ pending # <<>>
    /\ dispatched' = dispatched + 1
    /\ lastTool' = [call |-> Head(pending), res |-> res]
    /\ afterApproval' = Later(1)
    /\ IF OpenAIHalts(res.status)
       THEN /\ chatResult' = ApprovalInterrupt(Head(pending), res)
            /\ pc' = "done"
            /\ UNCHANGED <<pending, tool_results>>
       ELSE /\ tool_results' = Append(tool_results, res.status)
            /\ pending' = Tail(pending)
            /\ UNCHANGED <<chatResult, pc>>
    /\ UNCHANGED <<extVars, sandboxVars, sessionVars, turn, iter, requests, toolRequests, tool_calls_made, fed, raised>>

\* messages.extend(tool_results) and the second create, without tools
OpenAIFinalRequest(resp) ==
    /\ InChat("openai", "dispatch")
    /\ pending = <<>>
    /\ fed' = fed + Len(tool_results)
    /\ requests' = requests + 1
    /\ raised' = RaisedNow(resp, requests + 1, dispatched)
    /\ afterApproval' = Later(1 + Len(tool_results))
    /\ chatResult' = IF Caught(resp) THEN ChatError("exception")
                     ELSE ChatSuccess("text", OpenAIToolCallsMade(tool_results))
    /\ pc' = "done"
    /\ UNCHANGED <<extVars, sandboxVars, sessionVars, turn, iter, toolRequests, dispatched, tool_calls_made,
                   pending, tool_results, lastTool>>

\* ---- GeminiAdapter.chat ----
\* the approval check left out: the result is sent back like any other
GeminiHaltsNever(status) == FALSE

\* the test that ends the turn with the approval interrupt
GeminiHalts(status) == status = "requires_approval"

GeminiCount(made) == made + 1

\* the for-loop still has an iteration to run
GeminiLoopOpen(i) == i < MAX_ITERATIONS

\* chat.send_message(augmented_query) before the loop
GeminiInitialRequest(resp) ==
    /\ InChat("gemini", "request")
    /\ requests' = requests + 1
    /\ raised' = RaisedNow(resp, requests + 1, dispatched)
    /\ toolRequests' = toolRequests + 1
    /\ afterApproval' = Later(1)
    /\ IF Caught(resp)
       THEN chatResult' = ChatError("exception") /\ pc' = "done" /\ UNCHANGED pending
       ELSE pending' = resp.calls /\ pc' = "loop" /\ UNCHANGED chatResult
    /\ UNCHANGED <<extVars, sandboxVars, sessionVars, turn, iter, dispatched, tool_calls_made, tool_results,
                   fed, lastTool>>

\* one loop iteration up to execute_tool_call: the first function_call part
\* of the response is dispatched, the other parts are never looked at
GeminiDispatch(res) ==
    /\ InChat("gemini", "loop")
    /\ GeminiLoopOpen(iter)
    /\ pending # <<>>
    /\ dispatched' = dispatched + 1
    /\ lastTool' = [call |-> Head(pending), res |-> res]
    /\ afterApproval' = Later(1)
    /\ IF GeminiHalts(res.status)
       THEN chatResult' = ApprovalInterrupt(Head(pending), res) /\ pc' = "done" /\ UNCHANGED pending
       ELSE pc' = "send" /\ pending' = Tail(pending) /\ UNCHANGED chatResult
    /\ UNCHANGED <<extVars, sandboxVars, sessionVars, turn, iter, requests, toolRequests, tool_calls_made,
                   tool_results, fed, raised>>

\* chat.send_message(function_response), the counter, the break
GeminiSend(resp) ==
    /\ InChat("gemini", "send")
    /\ requests' = requests + 1
    /\ raised' = RaisedNow(resp, requests + 1, dispatched)
    /\ toolRequests' = toolRequests + 1
    /\ fed' = fed + 1
    /\ afterApproval' = Later(2)
    /\ IF Caught(resp)
       THEN /\ chatResult' = ChatError("exception")
            /\ pc' = "done"
            /\ UNCHANGED <<pending, tool_calls_made, iter>>
       ELSE /\ pending' = resp.calls
            /\ tool_calls_made' = GeminiCount(tool_calls_made)
            /\ iter' = NextIteration(iter)
            /\ pc' = "loop"
            /\ UNCHANGED chatResult
    /\ UNCHANGED <<extVars, sandboxVars, sessionVars, turn, dispatched, tool_results, lastTool>>

\* the loop ends (no function call, or the range is exhausted) and chat returns
GeminiReturn ==
    /\ InChat("gemini", "loop")
    /\ ~GeminiLoopOpen(iter) \/ pending = <<>>
    /\ chatResult' = ChatSuccess("text", tool_calls_made)
    /\ pc' = "done"
    /\ UNCHANGED <<extVars, sandboxVars, sessionVars, turn, iter, requests, toolRequests, dispatched,
                   tool_calls_made, pending, tool_results, fed, lastTool, afterApproval, raised>>

\* ---- simple_chat of the three adapters ----
\* the one messages.create / completions.create / send_message, without tools
SimpleChatRequest(resp) ==
    /\ turn.mode = "simple_chat"
    /\ pc = "simple"
    /\ requests' = requests + 1
    /\ raised' = RaisedNow(resp, requests + 1, dispatched)
    /\ chatResult' = IF Caught(resp) THEN ChatError("exception")
                     ELSE ChatSuccess("text", 0)
    /\ pc' = "done"
    /\ UNCHANGED <<extVars, sandboxVars, sessionVars, turn, iter, toolRequests, dispatched,
                   tool_calls_made, pending, tool_results, fed, lastTool, afterApproval>>

AdapterNext ==
    \/ \E a \in Adapters, e \in BOOLEAN, av \in BOOLEAN : RouterChat(a, e, av)
    \/ \E a \in Adapters, av \in BOOLEAN, q \in BOOLEAN : DirectChat(a, av, q)
    \/ \E r \in Responses : ClaudeRequest(r)
    \/ \E res \in ToolResults : ClaudeDispatch(res)
    \/ ClaudeEndRound
    \/ \E r \in Responses : OpenAIRequest(r)
    \/ \E res \in ToolResults : OpenAIDispatch(res)
    \/ \E r \in Responses : OpenAIFinalRequest(r)
    \/ \E r \in Responses : GeminiInitialRequest(r)
    \/ \E res \in ToolResults : GeminiDispatch(res)
    \/ \E r \in Responses : GeminiSend(r)
    \/ GeminiReturn
    \/ \E r \in Responses : SimpleChatRequest(r)

\* the steps inside a turn: every provider request returns (with a response
\* or by raising) and every execute_tool_call returns within the sandbox
\* timeout, so a turn that can take a step eventually takes one
TurnStep ==
    \/ \E r \in Responses : ClaudeRequest(r)
    \/ \E res \in ToolResults : ClaudeDispatch(res)
    \/ ClaudeEndRound
    \/ \E r \in Responses : OpenAIRequest(r)
    \/ \E res \in ToolResults : OpenAIDispatch(res)
    \/ \E r \in Responses : OpenAIFinalRequest(r)
    \/ \E r \in Responses : GeminiInitialRequest(r)
    \/ \E res \in ToolResults : GeminiDispatch(res)
    \/ \E r \in Responses : GeminiSend(r)
    \/ GeminiReturn
    \/ \E r \in Responses : SimpleChatRequest(r)

(***************************************************************************)
(* Session memory (core/session.py) and the session part of POST /chat.    *)
(* A message is [role, content]; content is [kind, n]: the n-th text       *)
(* appended, the system prompt, or the summary "Previously discussed n     *)
(* messages".                                                              *)
(***************************************************************************)
MAX_MESSAGES == 40

\* serial numbers handed out to appended messages before the model stops
MaxAppends == 404

\* append_message calls outside a /chat turn
MaxDirectAppends == 1

SessionIds == {"s1"}

Roles == {"system", "user", "assistant"}

Msg(role, kind, n) == [role |-> role, content |-> [kind |-> kind, n |-> n]]

SystemPrompt == Msg("system", "prompt", 0)

\* summary_content of _compress_history
SummaryMsg(n) == Msg("system", "summary", n)

IsSystem(m) == m.role = "system"

IsChat(m) == m.role # "system"

\* system_msgs of _compress_history
SystemMsgs(history) == SelectSeq(history, IsSystem)

\* chat_msgs of _compress_history
ChatMsgs(history) == SelectSeq(history, IsChat)

\* midpoint = max(1, len(chat_msgs) // 2)
Midpoint(chat_msgs) ==
    IF Len(chat_msgs) \div 2 >= 1 THEN Len(chat_msgs) \div 2 ELSE 1

\* chat_msgs[:midpoint]; a Python slice stops at the end of the list
OldMsgs(chat_msgs) ==
    SubSeq(chat_msgs, 1,
           IF Midpoint(chat_msgs) <= Len(chat_msgs) THEN Midpoint(chat_msgs)
           ELSE Len(chat_msgs))

\* the slice started one message early: chat_msgs[midpoint - 1:]
NewMsgsFromBoundary(chat_msgs) == SubSeq(chat_msgs, Midpoint(chat_msgs), Len(chat_msgs))

\* chat_msgs[midpoint:]
NewMsgs(chat_msgs) == SubSeq(chat_msgs, Midpoint(chat_msgs) + 1, Len(chat_msgs))

\* SessionManager._compress_history: the list stored back
CompressHistory(history) ==
    IF Len(history) <= 4 THEN history
    ELSE SystemMsgs(history)
         \o <<SummaryMsg(Len(OldMsgs(ChatMsgs(history))))>>
         \o NewMsgs(ChatMsgs(history))

\* SessionManager._check_and_compress: whether compression is triggered
NeedsCompression(history) == Len(history) > MAX_MESSAGES

\* the history after append_message: the append, then _check_and_compress
AppendResult(history, m) ==
    IF NeedsCompression(Append(history, m)) THEN CompressHistory(Append(history, m))
    ELSE Append(history, m)

NoAppend == [before |-> <<>>, after |-> <<>>]

\* one append_message call on history: what it appended to, what it left
AppendRecord(history, m) ==
    [before |-> Append(history, m), after |-> AppendResult(history, m)]

\* lines appended to MEMORY.md by one append_message: the citation notes of
\* an assistant reply, then the compression event
AppendLog(history, m, cites) ==
    (IF cites /\ m.role \in {"assistant", "model"} THEN <<[kind |-> "citation", n |-> 0]>>
     ELSE <<>>)
    \o (IF NeedsCompression(Append(history, m)) /\ Len(Append(history, m)) > 4
        THEN <<[kind |-> "compressed",
                n |-> Len(OldMsgs(ChatMsgs(Append(history, m))))]>>
        ELSE <<>>)

\* flush_conversation_to_memory: the transcript entry, if any
FlushLog(convs, sid) ==
    IF sid \in DOMAIN convs /\ Len(convs[sid]) > 1
    THEN <<[kind |-> "transcript", n |-> Len(ChatMsgs(convs[sid]))]>>
    ELSE <<>>

SessionIdle ==
    /\ conversations = <<>>
    /\ nextContent = 1
    /\ directAppends = 0
    /\ lastAppend = NoAppend
    /\ memoryTail = <<>>

\* the table with sid mapped to history
WithSession(convs, sid, history) ==
    [x \in DOMAIN convs \cup {sid} |-> IF x = sid THEN history ELSE convs[x]]

\* get_or_create_conversation: the table afterwards
Created(convs, sid, with_prompt) ==
    IF sid \in DOMAIN convs THEN convs
    ELSE WithSession(convs, sid, IF with_prompt THEN <<SystemPrompt>> ELSE <<>>)

\* SessionManager.get_or_create_conversation(session_id, system_prompt)
GetOrCreateConversation(sid, with_prompt) ==
    /\ conversations' = Created(conversations, sid, with_prompt)
    /\ lastAppend' = NoAppend
    /\ memoryTail' = <<>>
    /\ UNCHANGED <<extVars, sandboxVars, adapterVars, nextContent, directAppends>>

\* SessionManager.append_message(session_id, role, content) called on its own.
\* For an id that is not in the table the message goes to a throw-away list.
AppendMessage(sid, role, cites) ==
    LET m == Msg(role, "text", nextContent)
        known == sid \in DOMAIN conversations
        history == IF known THEN conversations[sid] ELSE <<>>
    IN  /\ nextContent < MaxAppends
        /\ directAppends < MaxDirectAppends
        /\ directAppends' = directAppends + 1
        /\ nextContent' = nextContent + 1
        /\ conversations' = IF known
                            THEN WithSession(conversations, sid, AppendResult(history, m))
                            ELSE conversations
        /\ lastAppend' = AppendRecord(history, m)
        /\ memoryTail' = IF known THEN AppendLog(history, m, cites)
                         ELSE AppendLog(<<>>, m, cites)
        /\ UNCHANGED <<extVars, sandboxVars, adapterVars>>

\* POST /chat whose adapter result is success: get_session, the user and the
\* assistant append, and the flush every 20 messages
ChatTurn(sid, cites) ==
    LET c0 == Created(conversations, sid, TRUE)
        u == Msg("user", "text", nextContent)
        a == Msg("assistant", "text", nextContent + 1)
        h1 == AppendResult(c0[sid], u)
        h2 == AppendResult(h1, a)
        c2 == WithSession(c0, sid, h2)
    IN  /\ nextContent + 1 < MaxAppends
        /\ nextContent' = nextContent + 2
        /\ conversations' = c2
        /\ lastAppend' = IF NeedsCompression(Append(c0[sid], u))
                             /\ ~NeedsCompression(Append(h1, a))
                          THEN AppendRecord(c0[sid], u)
                          ELSE AppendRecord(h1, a)
        /\ memoryTail' = AppendLog(c0[sid], u, FALSE) \o AppendLog(h1, a, cites)
                         \o (IF Len(h2) > 0 /\ Len(h2) % 20 = 0 THEN FlushLog(c2, sid)
                             ELSE <<>>)
        /\ UNCHANGED <<extVars, sandboxVars, adapterVars, directAppends>>

\* the table after flush_conversation_to_memory, had it fetched the history
\* with get_or_create_conversation
FlushedTableCreating(convs, sid) == Created(convs, sid, FALSE)

\* the table after flush_conversation_to_memory: the history is read with
\* self._conversations.get(session_id, []), which stores nothing
FlushedTable(convs, sid) == convs

\* POST /chat/flush/{session_id}: flush_conversation_to_memory
FlushConversation(sid) ==
    /\ memoryTail' = FlushLog(conversations, sid)
    /\ lastAppend' = NoAppend
    /\ conversations' = FlushedTable(conversations, sid)
    /\ UNCHANGED <<extVars, sandboxVars, adapterVars, nextContent, directAppends>>

\* self._conversations.pop(session_id, None)
Popped(convs, sid) == [x \in DOMAIN convs \ {sid} |-> convs[x]]

\* what clear_conversation writes to MEMORY.md, had it popped the session
\* before flushing it
ClearLogAfterPop(convs, sid) == FlushLog(Popped(convs, sid), sid)

\* what clear_conversation writes to MEMORY.md: the flush comes first
ClearLog(convs, sid) == FlushLog(convs, sid)

\* DELETE /chat/session/{session_id}: clear_conversation
ClearConversation(sid) ==
    /\ memoryTail' = ClearLog(conversations, sid)
    /\ conversations' = Popped(conversations, sid)
    /\ nextContent' = 1
    /\ directAppends' = 0
    /\ lastAppend' = NoAppend
    /\ UNCHANGED <<extVars, sandboxVars, adapterVars>>

(***************************************************************************)
(* The skill registry (core/uma_core.py SkillRegistry) and the endpoints   *)
(* that scan it.  The plain handlers of router.py run in worker threads,   *)
(* so a reader of registry.skills runs beside a scan in progress.          *)
(***************************************************************************)
\* content revisions a bundle goes through in the model
MaxRev == 1

\* directories that can exist below skills_home
SkillDirs == {"alpha", "beta", "mcp-new"}

\* a directory: absent, or present with a SKILL.md whose front matter parses
\* ("valid") or does not ("invalid"); rev identifies the bytes of its files
Bundle(state, rev) == [state |-> state, rev |-> rev]

NoEntry == [path |-> "none", hash |-> <<>>]

\* SkillRegistry._generate_dir_hash: sha256 over the names and the bytes of
\* the bundle's files, a function of the content alone
DirHash(bundle) == <<"sha256", bundle.rev>>

\* the entry _register_skill stores for directory d
Entry(dsk, d) == [path |-> d, hash |-> DirHash(dsk[d])]

\* SkillRegistry._register_skill(d) applied to the table
RegisterSkill(table, dsk, d) ==
    IF dsk[d].state = "valid" THEN [table EXCEPT ![d] = Entry(dsk, d)] ELSE table

\* the loop of scan_skills run to its end on table
ScanAll(table, dsk) ==
    [d \in SkillDirs |-> IF dsk[d].state = "valid" THEN Entry(dsk, d) ELSE table[d]]

\* registry.skills.clear()
EmptyTable == [d \in SkillDirs |-> NoEntry]

Registered(table) == {d \in SkillDirs : table[d] # NoEntry}

NoScan == [pc |-> "idle", op |-> "none", todo |-> {}, pre |-> EmptyTable]

NoObservation == [during |-> FALSE, table |-> EmptyTable, pre |-> EmptyTable,
                  post |-> EmptyTable]

\* the shipped layout: two bundles with a manifest
InitialDisk ==
    [d \in SkillDirs |-> IF d = "mcp-new" THEN Bundle("absent", 0) ELSE Bundle("valid", 0)]

\* main.startup has run: uma.initialize() scanned the disk into an empty table
RegistryStarted(dsk) ==
    /\ disk = dsk
    /\ skills = ScanAll(EmptyTable, dsk)
    /\ manifest = Registered(ScanAll(EmptyTable, dsk))
    /\ scanner = NoScan
    /\ observed = NoObservation
    /\ lastScan = [n |-> 1, clean |-> TRUE, op |-> "startup",
                   table |-> ScanAll(EmptyTable, dsk), same |-> FALSE]
    /\ justScanned = TRUE
    /\ dirty = FALSE

RegistryIdle == RegistryStarted(InitialDisk)

\* POST /skills/rescan, up to the call of scan_skills: the table is cleared
\* in place
RescanBegin ==
    /\ scanner.pc = "idle"
    /\ skills' = EmptyTable
    /\ scanner' = [pc |-> "scanning", op |-> "rescan",
                   todo |-> {d \in SkillDirs : disk[d].state # "absent"}, pre |-> skills]
    /\ justScanned' = FALSE
    /\ observed' = NoObservation
    /\ UNCHANGED <<handoffVars, agentVars, selectVars, sandboxVars, adapterVars, sessionVars, serverVars, disk, manifest,
                   lastScan, dirty>>

\* POST /skills/create, up to the call of scan_skills: the directory and its
\* SKILL.md template are written; the table is left as it is
CreateSkill(d) ==
    /\ scanner.pc = "idle"
    /\ d = "mcp-new"
    /\ disk[d].state = "absent"
    /\ disk' = [disk EXCEPT ![d] = Bundle("valid", 0)]
    /\ scanner' = [pc |-> "scanning", op |-> "scan",
                   todo |-> {x \in SkillDirs : disk'[x].state # "absent"}, pre |-> skills]
    /\ justScanned' = FALSE
    /\ dirty' = TRUE
    /\ observed' = NoObservation
    /\ UNCHANGED <<handoffVars, agentVars, selectVars, sandboxVars, adapterVars, sessionVars, serverVars, skills, manifest,
                   lastScan>>

\* one iteration of the loop of scan_skills
ScanStep(d) ==
    /\ scanner.pc = "scanning"
    /\ d \in scanner.todo
    /\ skills' = RegisterSkill(skills, disk, d)
    /\ scanner' = [scanner EXCEPT !.todo = @ \ {d}]
    /\ UNCHANGED <<handoffVars, agentVars, selectVars, sandboxVars, adapterVars, sessionVars, serverVars, disk, manifest,
                   observed, lastScan, justScanned, dirty>>

\* the loop is over: _regenerate_manifest, and the endpoint returns
ScanEnd ==
    /\ scanner.pc = "scanning"
    /\ scanner.todo = {}
    /\ manifest' = Registered(skills)
    /\ lastScan' = [n |-> IF lastScan.n < 2 THEN lastScan.n + 1 ELSE lastScan.n,
                    clean |-> ~dirty, op |-> scanner.op,
                    table |-> skills, same |-> skills = lastScan.table]
    /\ scanner' = NoScan
    /\ justScanned' = TRUE
    /\ dirty' = FALSE
    /\ UNCHANGED <<handoffVars, agentVars, selectVars, sandboxVars, adapterVars, sessionVars, serverVars, disk, skills, observed>>

\* PUT /skills/{name}: SKILL.md is rewritten (after validation) with a backup
\* beside it, and the entry is popped from the table
UpdateSkill(d) ==
    /\ scanner.pc = "idle"
    /\ skills[d] # NoEntry
    /\ disk[d].state # "absent"
    /\ disk[d].rev < MaxRev
    /\ disk' = [disk EXCEPT ![d] = Bundle("valid", disk[d].rev + 1)]
    /\ skills' = [skills EXCEPT ![d] = NoEntry]
    /\ justScanned' = FALSE
    /\ dirty' = TRUE
    /\ observed' = NoObservation
    /\ UNCHANGED <<handoffVars, agentVars, selectVars, sandboxVars, adapterVars, sessionVars, serverVars, manifest, scanner,
                   lastScan>>

\* the operator removes a bundle directory, or saves a SKILL.md whose front
\* matter no longer parses
DiskChange(d, state) ==
    /\ scanner.pc = "idle"
    /\ disk[d].state = "valid"
    /\ state \in {"absent", "invalid"}
    /\ disk' = [disk EXCEPT ![d] = Bundle(state, IF state = "absent" THEN 0 ELSE @.rev)]
    /\ justScanned' = FALSE
    /\ dirty' = TRUE
    /\ observed' = NoObservation
    /\ UNCHANGED <<handoffVars, agentVars, selectVars, sandboxVars, adapterVars, sessionVars, serverVars, skills, manifest,
                   scanner, lastScan>>

\* GET /skills/list, GET /health, GET /tools, get_skill: a read of
\* registry.skills from another thread
ReadTable ==
    /\ observed' = [during |-> scanner.pc = "scanning" /\ scanner.op = "rescan",
                    table |-> skills,
                    pre |-> scanner.pre,
                    post |-> ScanAll(EmptyTable, disk)]
    /\ UNCHANGED <<handoffVars, agentVars, selectVars, sandboxVars, adapterVars, sessionVars, serverVars, disk, skills, manifest,
                   scanner, lastScan, justScanned, dirty>>

\* the requests the server is sent, and the session ids they name
Requests == {"r1", "r2"}

ServerSessionIds == {"s1", "s2"}

\* a request not yet sent
NoRequest ==
    [kind |-> "none", sid |-> "none", at |-> "new", role |-> "none", prompt |-> <<>>,
     ref |-> 0, snapshot |-> <<>>, appended |-> 0, ticket |-> 0, overlap |-> {},
     result |-> "none"]

(***************************************************************************)
(* Dynamic tool injection (adapters/__init__.py, the adapters' get_tools). *)
(* A text is a sequence of characters.  The texts of the model are ASCII,  *)
(* so the CJK and kana phases of _tokenize find nothing in them.           *)
(***************************************************************************)

\* the most tools a registry of the model lists
MaxListed == 4

\* the largest max_tools an adapter of the model is built with
MaxToolsCap == 3



Letters == {LowerCase[i] : i \in 1..26} \cup {UpperCase[i] : i \in 1..26}

IsLetter(c) == c \in Letters

LowerOf == [c \in {UpperCase[i] : i \in 1..26} |->
               LowerCase[CHOOSE i \in 1..26 : c = UpperCase[i]]]

\* str.lower() on one character
LowerChar(c) == IF c \in DOMAIN LowerOf THEN LowerOf[c] ELSE c

Lower(text) == [i \in 1..Len(text) |-> LowerChar(text[i])]

\* the elements of a set of integers, ascending
Ascending(S) ==
    [k \in 1..Cardinality(S) |-> CHOOSE i \in S : Cardinality({j \in S : j < i}) = k - 1]

\* re.findall(r'[a-zA-Z]{2,}', text.lower()): the maximal runs of letters
\* that are two letters long or longer.  The callers make a set of the list
\* _tokenize returns, and the set is what the operator yields.  (A singleton
\* set, here and below, binds an intermediate value that is used many times.)
Tokenize(text) ==
    UNION { { SubSeq(t, run[1], run[2]) :
                  run \in { <<i, j>> \in
                                {i \in 1..Len(t) : IsLetter(t[i]) /\ (i = 1 \/ ~IsLetter(t[i - 1]))}
                                \X {j \in 1..Len(t) : IsLetter(t[j]) /\ (j = Len(t) \/ ~IsLetter(t[j + 1]))} :
                                /\ j - i + 1 >= 2
                                /\ \A k \in i..j : IsLetter(t[k]) } }
            : t \in {Lower(text)} }

\* shared/stop_words.json was not found: both tables stay empty
NoLexicon == [stop_words |-> {}, synonym_map |-> <<>>]

\* shared/stop_words.json was loaded: one stop word and one synonym group
\* ("document": ["doc"]) stand for the file's lists
LoadedLexicon ==
    [stop_words |-> {<<"t", "h", "e">>},
     synonym_map |-> (<<"d", "o", "c", "u", "m", "e", "n", "t">> :> <<"d", "o", "c", "u", "m", "e", "n", "t">>)
                     @@ (<<"d", "o", "c">> :> <<"d", "o", "c", "u", "m", "e", "n", "t">>)]

Lexicons == {NoLexicon, LoadedLexicon}

NormalizeSynonym(lex, word) ==
    IF Lower(word) \in DOMAIN lex.synonym_map
    THEN lex.synonym_map[Lower(word)]
    ELSE Lower(word)

\* set(_normalize_synonym(w) for w in tokens if w.lower() not in _STOP_WORDS)
Keywords(lex, text) ==
    {NormalizeSynonym(lex, w) : w \in {v \in Tokenize(text) : Lower(v) \notin lex.stop_words}}

\* SchemaConverter.inject_logic appends the same system note to every
\* description; the note is abridged here to its words "note" and "check"
Injection == <<"\n", "[", "n", "o", "t", "e", ":", " ", "c", "h", "e", "c", "k", "]">>

InjectLogic(description) == description \o Injection

Parameters == [type |-> "object"]

ToOpenAI(meta) ==
    [type |-> "function",
     function |-> [name |-> meta.name, description |-> InjectLogic(meta.description),
                   parameters |-> Parameters]]

ToGemini(meta) ==
    [name |-> meta.name, description |-> InjectLogic(meta.description),
     parameters |-> Parameters]

\* the skills of the model's registries: name and description of the
\* metadata; each defines parameters and has its dependencies, so each is
\* listed as a tool and its description is passed on as it is
SkillMetas ==
    { [name |-> <<"p", "d", "f", "_", "r", "e", "a", "d", "e", "r">>, description |-> <<"R", "e", "a", "d", " ", "a", " ", "P", "D", "F", " ", "d", "o", "c">>],
      [name |-> <<"m", "a", "i", "l">>, description |-> <<"s", "e", "n", "d", " ", "t", "h", "e", " ", "m", "a", "i", "l">>],
      [name |-> <<"d", "o", "c", "x">>, description |-> <<"t", "h", "e", " ", "d", "o", "c", "u", "m", "e", "n", "t">>],
      [name |-> <<"c", "a", "l", "c">>, description |-> <<"a", "d", "d", " ", "2", " ", "n", "u", "m", "b", "e", "r", "s">>] }

\* the registries: some of the skills, each listed once, in any order
MetaLists ==
    {s \in UNION {[1..n -> SkillMetas] : n \in 0..MaxListed} :
         \A i, j \in 1..Len(s) : s[i] = s[j] => i = j}

\* UMA.get_tools_for_model(model_type)
GetToolsForModel(metas, model_type) ==
    [i \in 1..Len(metas) |-> IF model_type = "gemini" THEN ToGemini(metas[i])
                                                       ELSE ToOpenAI(metas[i])]

Queries ==
    { <<>>,
      <<"r", "e", "a", "d", " ", "t", "h", "e", " ", "P", "D", "F">>,
      <<"s", "e", "n", "d", " ", "a", " ", "D", "o", "c">>,
      <<"h", "i">>,
      <<"c", "h", "e", "c", "k", " ", "m", "a", "i", "l">> }

\* get_tool_text: the name and the description, a space between them
GetToolText(tool) ==
    IF "function" \in DOMAIN tool
    THEN tool.function.name \o <<" ">> \o tool.function.description
    ELSE tool.name \o <<" ">> \o tool.description

GetToolTokens(lex, tool) == Keywords(lex, GetToolText(tool))

SliceInclusive(seq, n) ==
    IF n >= 0
    THEN SubSeq(seq, 1, IF n + 1 < Len(seq) THEN n + 1 ELSE Len(seq))
    ELSE SubSeq(seq, 1, Len(seq) + n)

\* seq[:n] of Python
Slice(seq, n) ==
    IF n >= 0
    THEN SubSeq(seq, 1, IF n < Len(seq) THEN n ELSE Len(seq))
    ELSE SubSeq(seq, 1, Len(seq) + n)

\* scored.sort(key=lambda x: x[0], reverse=True) on a list of
\* (overlap, tool) pairs: a stable sort, the larger overlap first, equal
\* overlaps in the order they had
SortedByScore(scored) ==
    LET n == Len(scored)
        Rank(i) == Cardinality({j \in 1..n : \/ scored[j][1] > scored[i][1]
                                             \/ scored[j][1] = scored[i][1] /\ j < i}) + 1
    IN  [k \in 1..n |-> scored[CHOOSE i \in 1..n : Rank(i) = k]]

\* Phase 1: the positions of the tools whose tokens overlap the query's
Matched(query_words, tool_tokens) ==
    Ascending({i \in DOMAIN tool_tokens : query_words \cap tool_tokens[i] # {}})

\* Phase 1: the positions of the other tools
Unmatched(query_words, tool_tokens) ==
    Ascending({i \in DOMAIN tool_tokens : query_words \cap tool_tokens[i] = {}})

\* Phase 2: the (overlap, tool) pairs of the unmatched tools, sorted
Scored(query_words, tool_tokens, unmatched) ==
    CHOOSE sorted \in
        { SortedByScore(scored) :
              scored \in { [k \in 1..Len(unmatched) |->
                              <<Cardinality(query_words \cap tool_tokens[unmatched[k]]),
                                unmatched[k]>>] } } : TRUE

FallbackFirst(tools, max, matched, scored) ==
    CHOOSE r \in
        { [k \in 1..Len(sliced) |-> tools[sliced[k]]] :
              sliced \in { Slice([k \in 1..Len(scored) |-> scored[k][2]] \o matched, max) } } : TRUE

\* the two return statements
Returned(tools, max, matched, scored) ==
    CHOOSE r \in
        { [k \in 1..Len(sliced) |-> tools[sliced[k]]] :
              sliced \in { IF Len(matched) >= max
                           THEN Slice(matched, max)
                           ELSE Slice(matched \o [k \in 1..Len(scored) |-> scored[k][2]], max) } } : TRUE

select_fallback_first(lex, query, tools, max) ==
    CHOOSE r \in
        { CHOOSE q \in { FallbackFirst(tools, max, matched, Scored(query_words, tool_tokens, unmatched)) :
                             matched \in {Matched(query_words, tool_tokens)},
                             unmatched \in {Unmatched(query_words, tool_tokens)} } : TRUE :
              query_words \in {Keywords(lex, query)},
              tool_tokens \in {[i \in 1..Len(tools) |-> GetToolTokens(lex, tools[i])]} } : TRUE

\* the lists of the function hold positions of all_tools where the code's
\* lists hold the tool objects themselves
select_relevant_tools(lex, query, tools, max) ==
    CHOOSE r \in
        { CHOOSE q \in { Returned(tools, max, matched, Scored(query_words, tool_tokens, unmatched)) :
                             matched \in {Matched(query_words, tool_tokens)},
                             unmatched \in {Unmatched(query_words, tool_tokens)} } : TRUE :
              query_words \in {Keywords(lex, query)},
              tool_tokens \in {[i \in 1..Len(tools) |-> GetToolTokens(lex, tools[i])]} } : TRUE

\* the format an adapter asks the registry for
ModelType(adapter) == IF adapter = "gemini" THEN "gemini" ELSE "openai"

\* ClaudeAdapter.get_tools turns the OpenAI format into Claude's
ToClaude(tool) ==
    LET fn == IF "function" \in DOMAIN tool THEN tool.function ELSE tool
    IN  [name |-> fn.name, description |-> fn.description, input_schema |-> fn.parameters]

\* get_tools(user_query, max_tools) of the three adapters
GetToolsOf(adapter, lex, query, tools, max) ==
    CHOOSE r \in
        { IF adapter = "claude" THEN [k \in 1..Len(chosen) |-> ToClaude(chosen[k])] ELSE chosen :
              chosen \in { IF query # <<>> /\ Len(tools) > max
                           THEN select_relevant_tools(lex, query, tools, max)
                           ELSE tools } } : TRUE

NoSelection == [op |-> "none", tools |-> <<>>]

\* no registry listed, no query, nothing selected
SelectIdle ==
    /\ lexicon = NoLexicon
    /\ user_query = <<>>
    /\ all_tools = <<>>
    /\ max_tools = 0
    /\ selection = NoSelection

\* select_relevant_tools(user_query, all_tools, max_tools) called by itself
SelectRelevantTools ==
    /\ selection.op = "none"
    /\ selection' = [op |-> "select_relevant_tools",
                     tools |-> select_relevant_tools(lexicon, user_query, all_tools, max_tools)]
    /\ UNCHANGED <<handoffVars, agentVars, sandboxVars, adapterVars, sessionVars, serverVars, registryVars,
                   lexicon, user_query, all_tools, max_tools>>

\* adapter.get_tools(user_query=user_query), the call chat() makes
GetTools(adapter) ==
    /\ selection.op = "none"
    /\ \A i \in 1..Len(all_tools) :
           ("function" \in DOMAIN all_tools[i]) = (ModelType(adapter) = "openai")
    /\ selection' = [op |-> "get_tools",
                     tools |-> GetToolsOf(adapter, lexicon, user_query, all_tools, max_tools)]
    /\ UNCHANGED <<handoffVars, agentVars, sandboxVars, adapterVars, sessionVars, serverVars, registryVars,
                   lexicon, user_query, all_tools, max_tools>>


(***************************************************************************)
(* auto_agent.py: the interactive loop with cross-provider fallback.       *)
(* A message is [role, content]; the content of the n-th utterance and of  *)
(* the reply to it is n, the content of the system message is 0.           *)
(***************************************************************************)

\* utterances the user enters before the model stops
MaxAgentTurns == 2

\* model_order: ["openai", "gemini"], or the --model choice followed by the
\* others of all_models
ModelOrders ==
    { <<"openai", "gemini">>, <<"gemini", "openai">>, <<"claude", "openai", "gemini">> }

AgentMsg(role, n) == [role |-> role, content |-> n]

\* the status of the dict adapter.chat returns; an exception raised by it
\* is turned into an error result by run_with_adapter
AgentOutcomes == {"success", "error", "requires_approval"}

\* run_with_adapter: the user message is appended before adapter.chat is
\* called, the assistant message after it returned success
run_with_adapter(history, user_input, status) ==
    IF status = "success"
    THEN history \o <<AgentMsg("user", user_input), AgentMsg("assistant", user_input)>>
    ELSE history \o <<AgentMsg("user", user_input)>>

NoAgent ==
    [pc |-> "off", order |-> <<>>, avail |-> {}, active |-> "none", turn_count |-> 0,
     fb |-> 0, result |-> "none", via |-> "none", started |-> <<>>]

AgentIdle ==
    /\ conversation_history = <<>>
    /\ agent = NoAgent

\* the first adapter of the order whose factory returns one
FirstAvailable(order, avail) ==
    order[CHOOSE i \in 1..Len(order) : order[i] \in avail /\ \A j \in 1..(i - 1) : order[j] \notin avail]

\* main() up to the interactive loop
AgentStarted(order, avail, history) ==
    /\ conversation_history = history
    /\ agent = [NoAgent EXCEPT !.pc = "input", !.order = order, !.avail = avail,
                               !.active = FirstAvailable(order, avail)]

\* one utterance: run_with_adapter on the active adapter and the branch on
\* its result
AgentTurn(status) ==
    /\ agent.pc = "input"
    /\ agent.turn_count < MaxAgentTurns
    /\ conversation_history' =
           run_with_adapter(conversation_history, agent.turn_count + 1, status)
    /\ agent' = [agent EXCEPT !.turn_count = @ + 1,
                              !.result = status,
                              !.started = conversation_history,
                              !.via = IF status = "success" THEN "primary" ELSE "none",
                              !.pc = IF status = "error" THEN "fallback" ELSE "input",
                              !.fb = 1]
    /\ UNCHANGED <<handoffVars, sandboxVars, adapterVars, sessionVars, serverVars, registryVars, selectVars>>

\* one iteration of the fallback loop
AgentFallback(status) ==
    /\ agent.pc = "fallback"
    /\ agent.fb <= Len(agent.order)
    /\ LET name == agent.order[agent.fb]
       IN  IF name = agent.active \/ name \notin agent.avail
           THEN /\ agent' = [agent EXCEPT !.fb = @ + 1]
                /\ UNCHANGED conversation_history
           ELSE /\ conversation_history' =
                       run_with_adapter(conversation_history, agent.turn_count, status)
                /\ agent' = IF status = "success"
                            THEN [agent EXCEPT !.active = name, !.result = status,
                                               !.via = "fallback", !.pc = "input"]
                            ELSE [agent EXCEPT !.result = status, !.fb = @ + 1]
    /\ UNCHANGED <<handoffVars, sandboxVars, adapterVars, sessionVars, serverVars, registryVars, selectVars>>

\* the fallback loop ran out: all models failed, or the turn is dropped
AgentFallbackEnd ==
    /\ agent.pc = "fallback"
    /\ agent.fb > Len(agent.order)
    /\ agent' = [agent EXCEPT !.pc = IF agent.result = "error" THEN "ended" ELSE "input"]
    /\ UNCHANGED <<handoffVars, sandboxVars, adapterVars, sessionVars, serverVars, registryVars, selectVars,
                   conversation_history>>

\* the user types quit
AgentQuit ==
    /\ agent.pc = "input"
    /\ agent' = [agent EXCEPT !.pc = "ended"]
    /\ UNCHANGED <<handoffVars, sandboxVars, adapterVars, sessionVars, serverVars, registryVars, selectVars,
                   conversation_history>>

(***************************************************************************)
(* Agent mode: the messages of the first provider request of a turn, as    *)
(* POST /chat with execute = true and auto_agent.run_with_adapter make the *)
(* adapters build them.  The content of a message is a text, or the prompt *)
(* auto_agent folds the history into, kept as the list of its lines; the   *)
(* reference documents Gemini's retriever puts in front of it are a flag.  *)
(***************************************************************************)

\* user/assistant exchanges a history of the model holds at most
MaxPriorTurns == 2

Text(t) == [text |-> t, lines |-> <<>>, reference |-> FALSE]

Texts == {Text("a"), Text("b")}

ChatMessage(role, content) == [role |-> role, content |-> content]

SystemMessage == ChatMessage("system", Text("system prompt"))

\* the histories with n exchanges: a user message, then the reply to it
RECURSIVE Exchanges(_)
Exchanges(n) ==
    IF n = 0 THEN { <<>> }
    ELSE { h \o <<ChatMessage("user", u), ChatMessage("assistant", r)>> :
               h \in Exchanges(n - 1), u \in Texts, r \in Texts }

\* the list a caller holds when the turn begins, with or without a system
\* message at its head
Histories ==
    LET chats == UNION { Exchanges(n) : n \in 0..MaxPriorTurns }
    IN  chats \cup { <<SystemMessage>> \o h : h \in chats }

\* [m for m in history_to_pass if m.get("role") != "system"]
WithoutSystem(messages) ==
    LET keep == {i \in 1..Len(messages) : messages[i].role # "system"}
    IN  [k \in 1..Cardinality(keep) |->
            messages[CHOOSE i \in keep : Cardinality({j \in keep : j < i}) = k - 1]]

\* conversation_history[-10:]
CONTEXT_MESSAGES == 10

LastMessages(messages, n) ==
    IF Len(messages) <= n THEN messages ELSE SubSeq(messages, Len(messages) - n + 1, Len(messages))

\* the prompt run_with_adapter builds for Gemini and Claude: one line per
\* message of the last ten that has content, then the line of the utterance
FullPrompt(history, user_input) ==
    IF Len(history) > 0
    THEN [Text("") EXCEPT
              !.lines = SelectSeq(LastMessages(history, CONTEXT_MESSAGES),
                                  LAMBDA m : m.content # Text(""))
                        \o <<ChatMessage("user", user_input)>>]
    ELSE user_input

\* what a caller passes to adapter.chat: messages (a list, a prompt, or
\* nothing) and user_query
RouterArguments(history, user_content) ==
    [messages |-> WithoutSystem(history \o <<ChatMessage("user", user_content)>>),
     user_query |-> user_content, is_list |-> TRUE]

DirectArguments(a, history, user_input) ==
    IF a = "openai"
    THEN [messages |-> history \o <<ChatMessage("user", user_input)>>,
          user_query |-> user_input, is_list |-> TRUE]
    ELSE [messages |-> FullPrompt(history, user_input), user_query |-> Text(""),
          is_list |-> FALSE]

\* user_query as chat() of ClaudeAdapter and GeminiAdapter settles it: a
\* string passed as messages is the query; a query that was passed stands;
\* otherwise the content of the last user message of the list
ResolvedQuery(args) ==
    IF ~args.is_list THEN args.messages
    ELSE IF args.user_query # Text("") THEN args.user_query
    ELSE LET users == {i \in 1..Len(args.messages) : args.messages[i].role = "user"}
         IN  IF users = {} THEN Text("")
             ELSE args.messages[CHOOSE i \in users : \A j \in users : j <= i].content

\* claude_messages = [{"role": "user", "content": user_query}]
ClaudeFirstMessages(args) == <<ChatMessage("user", ResolvedQuery(args))>>

\* model.start_chat() without history, then chat.send_message(augmented_query);
\* the retriever's context, when it finds some, goes in front of the query
GeminiFirstMessages(args, retrieved) ==
    IF retrieved
    THEN <<ChatMessage("user", [ResolvedQuery(args) EXCEPT !.reference = TRUE])>>
    ELSE <<ChatMessage("user", ResolvedQuery(args))>>

OpenAISystemMessage == ChatMessage("system", Text("agent system prompt"))

\* OpenAIAdapter.chat sends the list it was given, its own system message
\* put in front when the list has none
OpenAIFirstMessages(args) ==
    IF \E i \in 1..Len(args.messages) : args.messages[i].role = "system"
    THEN args.messages
    ELSE <<OpenAISystemMessage>> \o args.messages

FirstMessages(a, args, retrieved) ==
    CASE a = "claude" -> ClaudeFirstMessages(args)
      [] a = "gemini" -> GeminiFirstMessages(args, retrieved)
      [] OTHER -> OpenAIFirstMessages(args)

NoHandoff ==
    [entry |-> "none", adapter |-> "none", history |-> <<>>, utterance |-> Text(""),
     sent |-> FALSE, request |-> <<>>]

HandoffIdle == handoff = NoHandoff

\* POST /chat with execute = true, up to the first provider request: the
\* adapters whose chat() does not take the router's keywords raise before it
RouterAgentChat(a, retrieved) ==
    /\ handoff.entry = "none"
    /\ handoff' = [handoff EXCEPT
           !.entry = "router", !.adapter = a,
           !.sent = AcceptsRouterKwargs(a, "chat"),
           !.request = IF AcceptsRouterKwargs(a, "chat")
                       THEN FirstMessages(a, RouterArguments(handoff.history, handoff.utterance),
                                          retrieved)
                       ELSE <<>>]
    /\ UNCHANGED <<sandboxVars, adapterVars, sessionVars, serverVars, registryVars, selectVars,
                   agentVars>>

\* auto_agent.run_with_adapter up to the first provider request
DirectAgentChat(a, retrieved) ==
    /\ handoff.entry = "none"
    /\ handoff' = [handoff EXCEPT
           !.entry = "direct", !.adapter = a, !.sent = TRUE,
           !.request = FirstMessages(a, DirectArguments(a, handoff.history, handoff.utterance),
                                     retrieved)]
    /\ UNCHANGED <<sandboxVars, adapterVars, sessionVars, serverVars, registryVars, selectVars,
                   agentVars>>

\* no request in flight; every session list is the object it was created as
ServerIdle ==
    /\ loop = "none"
    /\ reqs = [r \in Requests |-> NoRequest]
    /\ listGen = [sid \in ServerSessionIds |-> 0]

NoCall == [op |-> "none", id |-> Rel(<<>>), name |-> Rel(<<>>), args |-> <<>>,
           proc |-> NoProc, fault |-> "none"]

NoResult == [status |-> "none", kind |-> "none"]

SandboxIdle ==
    /\ call = NoCall
    /\ result = NoResult
    /\ accessLog = <<>>
    /\ tempFile = "none"
    /\ child = "none"
    /\ payload = <<>>
    /\ http = 0
    /\ channels = NoChannels

SandboxInit ==
    /\ fs \in FsConfigs
    /\ SandboxIdle
    /\ AdapterIdle
    /\ SessionIdle
    /\ ServerIdle
    /\ RegistryIdle
    /\ SelectIdle
    /\ AgentIdle
    /\ HandoffIdle

AdapterInit ==
    /\ fs = FilesInHome \cup FilesOutside
    /\ SandboxIdle
    /\ AdapterIdle
    /\ SessionIdle
    /\ ServerIdle
    /\ RegistryIdle
    /\ SelectIdle
    /\ AgentIdle
    /\ HandoffIdle

\* UMA.execute_tool_call(skill_name, arguments), the sandbox's run operation
ExecuteToolCall(skill_name, arguments, outcome, held, proc, fault) ==
    LET r == ExecuteToolCallUnder(fs, skill_name, outcome, held, proc, fault)
    IN  /\ call' = [op |-> "execute", id |-> skill_name, name |-> Rel(<<>>),
                    args |-> arguments, proc |-> proc,
                    fault |-> fault]
        /\ result' = [status |-> r.status, kind |-> r.kind]
        /\ accessLog' = r.log
        /\ tempFile' = r.temp
        /\ child' = ChildFate(r.log, outcome)
        /\ payload' = r.body
        /\ http' = 0
        /\ channels' = IF Spawned(r.log) THEN Channels(arguments) ELSE NoChannels
        /\ UNCHANGED <<extVars, fs, adapterVars, sessionVars>>

\* GET /resources/{skill_name}/{file_name}
ReadResource(skill_name, file_name) ==
    LET r == ReadResourceResult(fs, skill_name, file_name)
    IN  /\ call' = [op |-> "read", id |-> skill_name, name |-> file_name, args |-> <<>>,
                    proc |-> NoProc, fault |-> "none"]
        /\ result' = [status |-> r.status, kind |-> r.kind]
        /\ accessLog' = r.log
        /\ tempFile' = r.temp
        /\ child' = "none"
        /\ payload' = r.body
        /\ http' = ResourceHttpStatus(r)
        /\ channels' = NoChannels
        /\ UNCHANGED <<extVars, fs, adapterVars, sessionVars>>

\* POST /search/{skill_name}/{file_name}
SearchResource(skill_name, file_name) ==
    LET r == SearchResourceResult(fs, skill_name, file_name)
    IN  /\ call' = [op |-> "search", id |-> skill_name, name |-> file_name, args |-> <<>>,
                    proc |-> NoProc, fault |-> "none"]
        /\ result' = [status |-> r.status, kind |-> r.kind]
        /\ accessLog' = r.log
        /\ tempFile' = r.temp
        /\ child' = "none"
        /\ payload' = r.body
        /\ http' = ResourceHttpStatus(r)
        /\ channels' = NoChannels
        /\ UNCHANGED <<extVars, fs, adapterVars, sessionVars>>

SandboxNext ==
    \/ \E id \in SkillIds, a \in ArgMaps, o \in ChildOutcomes, held \in BOOLEAN :
           \E proc \in ChildRuns(o) : ExecuteToolCall(id, a, o, held, proc, "none")
    \/ \E id \in SkillIds, a \in ArgMaps, fault \in Faults :
           ExecuteToolCall(id, a, "exit0", FALSE, NoProc, fault)
    \/ \E id \in SkillIds, n \in ResourceNames : ReadResource(id, n)
    \/ \E id \in SkillIds, n \in ResourceNames : SearchResource(id, n)

SandboxSpec == SandboxInit /\ [][SandboxNext]_vars

AdapterSpec == AdapterInit /\ [][AdapterNext]_vars

\* the adapters under the assumption that requests and subprocesses return
AdapterFairSpec == AdapterInit /\ [][AdapterNext]_vars /\ WF_vars(TurnStep)

SessionInit ==
    /\ fs = FilesInHome \cup FilesOutside
    /\ SandboxIdle
    /\ AdapterIdle
    /\ SessionIdle
    /\ ServerIdle
    /\ RegistryIdle
    /\ SelectIdle
    /\ AgentIdle
    /\ HandoffIdle

SessionNext ==
    \/ \E sid \in SessionIds, p \in BOOLEAN : GetOrCreateConversation(sid, p)
    \/ \E sid \in SessionIds, r \in Roles, c \in BOOLEAN : AppendMessage(sid, r, c)
    \/ \E sid \in SessionIds, c \in BOOLEAN : ChatTurn(sid, c)
    \/ \E sid \in SessionIds : FlushConversation(sid)
    \/ \E sid \in SessionIds : ClearConversation(sid)

SessionSpec == SessionInit /\ [][SessionNext]_vars

\* the session operations the HTTP endpoints perform: /chat (successful or
\* not), /chat/flush, DELETE /chat/session
RouterSessionNext ==
    \/ \E sid \in SessionIds : GetOrCreateConversation(sid, TRUE)
    \/ \E sid \in SessionIds, c \in BOOLEAN : ChatTurn(sid, c)
    \/ \E sid \in SessionIds : FlushConversation(sid)
    \/ \E sid \in SessionIds : ClearConversation(sid)

RouterSessionSpec == SessionInit /\ [][RouterSessionNext]_vars

(***************************************************************************)
(* The HTTP server (router.py).  A coroutine handler (async def) runs on   *)
(* the event loop; it has no await in its body, so from its first          *)
(* statement to its return it occupies the loop, also while it waits for   *)
(* the provider or for a skill subprocess.  A plain handler (def) is       *)
(* handed to a worker thread by the loop and runs beside it.  The steps of *)
(* append_message are separate, as the interpreter can switch threads      *)
(* between them.                                                           *)
(***************************************************************************)
\* sessions before the requests arrive: this many /chat turns were served
SettledTurns == 19

\* POST /chat with execute = false, with execute = true, and POST /execute
HandlerKinds == {"chat", "agent", "execute"}

\* the text a request carries, as the serial number of its user message
ReqSerial(r) == IF r = "r1" THEN 1001 ELSE 2001

\* req.user_input as appended at router.py:343
UserMsgOf(r) == Msg("user", "text", ReqSerial(r))

\* result["content"] as appended at router.py:344
AssistantMsgOf(r) == Msg("assistant", "text", ReqSerial(r) + 1)

\* the session a fresh server holds after k successful /chat turns, for k up
\* to 20: the alternating appends, compacted by the last one if it made the
\* session exceed the threshold
TurnsHistory(k) ==
    LET appended == <<SystemPrompt>>
                    \o [i \in 1..(2 * k) |->
                           Msg(IF i % 2 = 1 THEN "user" ELSE "assistant", "text", i)]
    IN  IF NeedsCompression(appended) THEN CompressHistory(appended) ELSE appended

\* a handler declared def instead of async def: it never occupies the loop
RunsOnEventLoopNever(kind) == FALSE

\* async def chat occupies the event loop; def execute_tool runs in a worker
\* thread
RunsOnEventLoop(kind) == kind \in {"chat", "agent"}

\* the handler of r may take its next step
CanStep(r) == RunsOnEventLoop(reqs[r].kind) => loop = r

\* the thread that runs the handler of r is inside a blocking call
Blocked(r) == reqs[r].at \in {"provider", "subprocess"}

\* a client sends a request; it waits until the loop dispatches it.  overlap:
\* the requests on the same session that are in the server at that moment
\* (/execute carries no session id)
Arrive(r, kind, sid) ==
    /\ reqs[r].at = "new"
    /\ kind = "execute" <=> sid = "none"
    /\ reqs' = [reqs EXCEPT ![r] = [@ EXCEPT !.kind = kind, !.sid = sid, !.at = "arrived",
                                      !.overlap = {q \in Requests \ {r} :
                                                       /\ reqs[q].sid = sid
                                                       /\ reqs[q].at \notin {"new", "done"}}]]
    /\ UNCHANGED <<handoffVars, agentVars, selectVars, registryVars, sandboxVars, adapterVars, sessionVars, loop, listGen>>

\* get_session(sid): the message list /chat works on, the one holding the
\* system prompt alone for an id the table does not know yet
SessionView(convs, sid) == Created(convs, sid, TRUE)[sid]

\* the loop dispatches the request.  chat: get_session and history_to_pass
\* (router.py:263-305), then the adapter call; execute_tool: the handler
\* starts in a worker thread and runs the skill
HandlerStart(r) ==
    LET q == reqs[r]
        c0 == Created(conversations, q.sid, TRUE)
    IN  /\ q.at = "arrived"
        /\ loop = "none"
        /\ IF q.kind = "execute"
           THEN /\ reqs' = [reqs EXCEPT ![r] = [@ EXCEPT !.at = "subprocess"]]
                /\ UNCHANGED <<conversations, loop>>
           ELSE /\ conversations' = c0
                /\ reqs' = [reqs EXCEPT ![r] =
                               [@ EXCEPT !.at = "provider",
                                         !.prompt = Append(c0[q.sid], UserMsgOf(r))]]
                /\ loop' = IF RunsOnEventLoop(q.kind) THEN r ELSE loop
        /\ UNCHANGED <<handoffVars, agentVars, selectVars, registryVars, sandboxVars, adapterVars, nextContent, directAppends, lastAppend,
                       memoryTail, listGen>>

\* what the adapter call of /chat can end with: the result statuses, and
\* "tool" for a tool call that keeps the agent loop going
AdapterOutcomes == {"success", "tool", "error", "requires_approval"}

\* if result.get("status") == "success" (router.py:341): the appends are made
AppendsOnAny(status) == TRUE

AppendsOn(status) == status = "success"

\* the provider answers: a final text, a tool call (agent mode only), or the
\* adapter returns another status, after which the handler returns without
\* appending
ProviderReturn(r, outcome) ==
    LET q == reqs[r]
    IN  /\ q.at = "provider"
        /\ CanStep(r)
        /\ outcome = "tool" => q.kind = "agent"
        /\ CASE outcome = "tool" ->
                  /\ reqs' = [reqs EXCEPT ![r] = [@ EXCEPT !.at = "subprocess"]]
                  /\ UNCHANGED loop
             [] outcome # "tool" /\ AppendsOn(outcome) ->
                  /\ reqs' = [reqs EXCEPT ![r] = [@ EXCEPT !.at = "get", !.role = "user",
                                                          !.result = outcome]]
                  /\ UNCHANGED loop
             [] OTHER ->
                  /\ reqs' = [reqs EXCEPT ![r] = [@ EXCEPT !.at = "done", !.result = outcome]]
                  /\ loop' = IF loop = r THEN "none" ELSE loop
        /\ UNCHANGED <<handoffVars, agentVars, selectVars, registryVars, sandboxVars, adapterVars, sessionVars, listGen>>

\* process.communicate returns (or times out): /execute returns its result,
\* the agent loop sends the result to the provider
SubprocessReturn(r) ==
    LET q == reqs[r]
    IN  /\ q.at = "subprocess"
        /\ CanStep(r)
        /\ reqs' = [reqs EXCEPT ![r] =
                       [@ EXCEPT !.at = IF q.kind = "execute" THEN "done" ELSE "provider"]]
        /\ UNCHANGED <<handoffVars, agentVars, selectVars, registryVars, sandboxVars, adapterVars, sessionVars, loop, listGen>>

\* append_message, first statement: history = self._conversations.get(sid, [])
AppendGet(r) ==
    LET q == reqs[r]
    IN  /\ q.at = "get"
        /\ CanStep(r)
        /\ reqs' = [reqs EXCEPT ![r] =
                       [@ EXCEPT !.at = "append",
                                 !.ref = IF q.sid \in DOMAIN conversations
                                         THEN listGen[q.sid] ELSE -1,
                                 !.ticket = IF q.role = "user"
                                            THEN 1 + Cardinality({x \in Requests :
                                                                      reqs[x].ticket > 0})
                                            ELSE @]]
        /\ UNCHANGED <<handoffVars, agentVars, selectVars, registryVars, sandboxVars, adapterVars, sessionVars, loop, listGen>>

\* history.append(...): the message lands in the list object fetched before,
\* which is the session only while the table still holds that object
AppendDo(r) ==
    LET q == reqs[r]
        m == IF q.role = "user" THEN UserMsgOf(r) ELSE AssistantMsgOf(r)
        live == q.sid \in DOMAIN conversations /\ q.ref = listGen[q.sid]
    IN  /\ q.at = "append"
        /\ CanStep(r)
        /\ conversations' = IF live
                            THEN WithSession(conversations, q.sid,
                                             Append(conversations[q.sid], m))
                            ELSE conversations
        /\ reqs' = [reqs EXCEPT ![r] = [@ EXCEPT !.at = "check"]]
        /\ UNCHANGED <<handoffVars, agentVars, selectVars, registryVars, sandboxVars, adapterVars, nextContent, directAppends, lastAppend,
                       memoryTail, loop, listGen>>

\* the position after one append_message call has returned
AfterAppend(q) ==
    [q EXCEPT !.at = IF q.role = "user" THEN "get" ELSE "finish",
              !.role = IF q.role = "user" THEN "assistant" ELSE q.role,
              !.appended = q.appended + 1]

\* _check_and_compress and the reads of _compress_history
AppendCheck(r) ==
    LET q == reqs[r]
        history == IF q.sid \in DOMAIN conversations THEN conversations[q.sid] ELSE <<>>
    IN  /\ q.at = "check"
        /\ CanStep(r)
        /\ reqs' = [reqs EXCEPT ![r] =
                       IF NeedsCompression(history) /\ Len(history) > 4
                       THEN [q EXCEPT !.at = "store", !.snapshot = history]
                       ELSE AfterAppend(q)]
        /\ UNCHANGED <<handoffVars, agentVars, selectVars, registryVars, sandboxVars, adapterVars, sessionVars, loop, listGen>>

\* self._conversations[session_id] = compressed_history: a new list object
CompressStore(r) ==
    LET q == reqs[r]
    IN  /\ q.at = "store"
        /\ CanStep(r)
        /\ conversations' = WithSession(conversations, q.sid, CompressHistory(q.snapshot))
        /\ listGen' = [listGen EXCEPT ![q.sid] = @ + 1]
        /\ memoryTail' = <<[kind |-> "compressed",
                            n |-> Len(OldMsgs(ChatMsgs(q.snapshot)))]>>
        /\ reqs' = [reqs EXCEPT ![r] = [AfterAppend(q) EXCEPT !.snapshot = <<>>]]
        /\ UNCHANGED <<handoffVars, agentVars, selectVars, registryVars, sandboxVars, adapterVars, nextContent, directAppends, lastAppend, loop>>

\* the flush every 20 messages (router.py:348-350) and the return
HandlerReturn(r) ==
    LET q == reqs[r]
        c1 == Created(conversations, q.sid, FALSE)
    IN  /\ q.at = "finish"
        /\ CanStep(r)
        /\ conversations' = c1
        /\ memoryTail' = IF Len(c1[q.sid]) > 0 /\ Len(c1[q.sid]) % 20 = 0
                         THEN FlushLog(c1, q.sid) ELSE <<>>
        /\ reqs' = [reqs EXCEPT ![r] = [@ EXCEPT !.at = "done"]]
        /\ loop' = IF loop = r THEN "none" ELSE loop
        /\ UNCHANGED <<handoffVars, agentVars, selectVars, registryVars, sandboxVars, adapterVars, nextContent, directAppends, lastAppend,
                       listGen>>

ServerInit ==
    /\ fs = FilesInHome \cup FilesOutside
    /\ SandboxIdle
    /\ AdapterIdle
    /\ \/ conversations = <<>> /\ nextContent = 1
       \/ /\ conversations = WithSession(<<>>, "s1", TurnsHistory(SettledTurns))
          /\ nextContent = 2 * SettledTurns + 1
    /\ directAppends = 0
    /\ lastAppend = NoAppend
    /\ memoryTail = <<>>
    /\ ServerIdle
    /\ RegistryIdle
    /\ SelectIdle
    /\ AgentIdle
    /\ HandoffIdle

ServerNext ==
    \/ \E r \in Requests, k \in HandlerKinds, sid \in ServerSessionIds \cup {"none"} :
           Arrive(r, k, sid)
    \/ \E r \in Requests : HandlerStart(r)
    \/ \E r \in Requests, o \in AdapterOutcomes : ProviderReturn(r, o)
    \/ \E r \in Requests : SubprocessReturn(r)
    \/ \E r \in Requests : AppendGet(r)
    \/ \E r \in Requests : AppendDo(r)
    \/ \E r \in Requests : AppendCheck(r)
    \/ \E r \in Requests : CompressStore(r)
    \/ \E r \in Requests : HandlerReturn(r)

ServerSpec == ServerInit /\ [][ServerNext]_vars

RegistryInit ==
    /\ fs = FilesInHome \cup FilesOutside
    /\ SandboxIdle
    /\ AdapterIdle
    /\ SessionIdle
    /\ ServerIdle
    /\ RegistryIdle
    /\ SelectIdle
    /\ AgentIdle
    /\ HandoffIdle

RegistryNext ==
    \/ RescanBegin
    \/ \E d \in SkillDirs : CreateSkill(d)
    \/ \E d \in SkillDirs : ScanStep(d)
    \/ ScanEnd
    \/ \E d \in SkillDirs : UpdateSkill(d)
    \/ \E d \in SkillDirs, st \in {"absent", "invalid"} : DiskChange(d, st)
    \/ ReadTable

RegistrySpec == RegistryInit /\ [][RegistryNext]_vars

SelectInit ==
    /\ fs = FilesInHome \cup FilesOutside
    /\ SandboxIdle
    /\ AdapterIdle
    /\ SessionIdle
    /\ ServerIdle
    /\ RegistryIdle
    /\ lexicon \in Lexicons
    /\ user_query \in Queries
    /\ \E metas \in MetaLists, model_type \in {"openai", "gemini"} :
           all_tools = GetToolsForModel(metas, model_type)
    /\ max_tools \in 1..MaxToolsCap
    /\ selection = NoSelection
    /\ AgentIdle
    /\ HandoffIdle

SelectNext ==
    \/ SelectRelevantTools
    \/ \E adapter \in Adapters : GetTools(adapter)

SelectSpec == SelectInit /\ [][SelectNext]_vars

AgentInit ==
    /\ fs = FilesInHome \cup FilesOutside
    /\ SandboxIdle
    /\ AdapterIdle
    /\ SessionIdle
    /\ ServerIdle
    /\ RegistryIdle
    /\ SelectIdle
    /\ \E order \in ModelOrders, avail \in SUBSET Adapters, sys \in BOOLEAN :
           /\ \E i \in 1..Len(order) : order[i] \in avail
           /\ AgentStarted(order, avail, IF sys THEN <<AgentMsg("system", 0)>> ELSE <<>>)
    /\ HandoffIdle

AgentNext ==
    \/ \E st \in AgentOutcomes : AgentTurn(st)
    \/ \E st \in AgentOutcomes : AgentFallback(st)
    \/ AgentFallbackEnd
    \/ AgentQuit

AgentSpec == AgentInit /\ [][AgentNext]_vars

HandoffInit ==
    /\ fs = FilesInHome \cup FilesOutside
    /\ SandboxIdle
    /\ AdapterIdle
    /\ SessionIdle
    /\ ServerIdle
    /\ RegistryIdle
    /\ SelectIdle
    /\ AgentIdle
    /\ \E h \in Histories, u \in Texts :
           handoff = [NoHandoff EXCEPT !.history = h, !.utterance = u]

HandoffNext ==
    \/ \E a \in Adapters, retrieved \in BOOLEAN : RouterAgentChat(a, retrieved)
    \/ \E a \in Adapters, retrieved \in BOOLEAN : DirectAgentChat(a, retrieved)

HandoffSpec == HandoffInit /\ [][HandoffNext]_vars

(***************************************************************************)
(* Tool dispatch beside the registry: the adapters call                    *)
(* uma.execute_tool_call with the name the provider emitted, POST /execute *)
(* looks the name up in registry.skills first.                             *)
(***************************************************************************)
\* the skill id a directory name is called by
SkillIdOf(d) == Rel(<< <<d>> >>)

\* SkillRegistry.get_skill(skill_name) found an entry
GetSkill(table, skill_name) ==
    \E d \in SkillDirs : SkillIdOf(d) = skill_name /\ table[d] # NoEntry

\* the dispatch of one emitted tool call by an adapter's chat loop:
\* result = self.uma.execute_tool_call(fn_name, fn_args)
AdapterToolCall(d, outcome, held, proc) ==
    ExecuteToolCall(SkillIdOf(d), <<>>, outcome, held, proc, "none")

\* POST /execute (router.execute_tool)
ExecuteEndpoint(d, env_ready, outcome, held, proc) ==
    LET skill_name == SkillIdOf(d)
        r == ExecuteToolCallResult(fs, skill_name, outcome, held, proc)
        ran == GetSkill(skills, skill_name) /\ env_ready
    IN  /\ call' = [op |-> "execute", id |-> skill_name, name |-> Rel(<<>>),
                    args |-> <<>>, proc |-> proc, fault |-> "none"]
        /\ result' = IF ~GetSkill(skills, skill_name)
                     THEN [status |-> "error", kind |-> "skill_not_found"]
                     ELSE IF ~env_ready
                     THEN [status |-> "error", kind |-> "env_not_ready"]
                     ELSE [status |-> r.status, kind |-> r.kind]
        /\ accessLog' = IF ran THEN r.log ELSE <<>>
        /\ tempFile' = IF ran THEN r.temp ELSE "none"
        /\ child' = IF ran THEN ChildFate(r.log, outcome) ELSE "none"
        /\ payload' = IF ran THEN r.body ELSE <<>>
        /\ http' = IF GetSkill(skills, skill_name) THEN 200 ELSE 404
        /\ channels' = IF ran /\ Spawned(r.log) THEN Channels(<<>>) ELSE NoChannels
        /\ UNCHANGED <<extVars, fs, adapterVars, sessionVars>>

\* the children a dispatched call meets: one that exits, one that runs past
\* the timeout
DispatchOutcomes == {"exit0", "timeout"}

DispatchInit == RegistryInit

DispatchNext ==
    \/ RescanBegin
    \/ \E d \in SkillDirs : ScanStep(d)
    \/ ScanEnd
    \/ \E d \in SkillDirs : UpdateSkill(d)
    \/ \E d \in SkillDirs, o \in DispatchOutcomes :
           \E proc \in ChildRuns(o) : AdapterToolCall(d, o, FALSE, proc)
    \/ \E d \in SkillDirs, ready \in BOOLEAN, o \in DispatchOutcomes :
           \E proc \in ChildRuns(o) : ExecuteEndpoint(d, ready, o, FALSE, proc)

DispatchSpec == DispatchInit /\ [][DispatchNext]_vars




(***************************************************************************)
(* Properties of the execution sandbox (checked under SandboxSpec).        *)
(***************************************************************************)
\* p is root or lies below it, component by component
Within(p, root) == Len(p) >= Len(root) /\ SubSeq(p, 1, Len(root)) = root

\* the directory a skill id names
SkillRootOf(id) == SanitizedPath(id)

\* the id names a directory below the skills home
NamesSkillRoot(id) ==
    Within(SkillRootOf(id), skills_home) /\ SkillRootOf(id) # skills_home

\* p lies inside the root of the skill the id names
InOwnRoot(id, p) == NamesSkillRoot(id) /\ Within(p, SkillRootOf(id))

\* C1: every filesystem access (existence test, read, spawn) made for a run
\* of the sandbox lands inside the root of the skill the id names.
C1_RunStaysInSkillRoot ==
    call.op = "execute" =>
        \A i \in DOMAIN accessLog : InOwnRoot(call.id, accessLog[i].path)

\* C2: a run whose skill id resolves outside the skills home returns
\* security_violation and has made no filesystem access.
C2_EscapingIdRejectedFirst ==
    (call.op = "execute" /\ ~Within(SkillRootOf(call.id), skills_home)) =>
        (result.status = "security_violation" /\ accessLog = <<>>)

\* C3: readResource and searchResource read no file outside the named
\* skill's own root, and succeed only on a file inside it.
C3_ResourceStaysInSkillRoot ==
    call.op \in {"read", "search"} =>
        \A i \in DOMAIN accessLog :
            accessLog[i].op = "read" => InOwnRoot(call.id, accessLog[i].path)

\* C4: a path escape rejected by readResource or searchResource reaches the
\* caller as security_violation, not as a generic error or a not-found.
C4_ResourceEscapeIsSecurityViolation ==
    (call.op \in {"read", "search"} /\ result.kind = "permission") =>
        (result.status = "security_violation" /\ http # 404)

(***************************************************************************)
(* Properties of the adapters' chat turn (checked under AdapterSpec).      *)
(***************************************************************************)
\* C5: a tool-calling chat sends at most MAX_ITERATIONS provider requests
\* in one turn, the initial one included.
C5_RoundTripsBounded == turn.mode = "chat" => requests <= MAX_ITERATIONS

\* C6: a tool-calling chat that returns success reports tool_calls_made
\* equal to the number of execute_tool_call invocations of the turn.
C6_ToolCallsMadeExact ==
    (turn.mode = "chat" /\ pc = "done" /\ chatResult.status = "success") =>
        chatResult.tool_calls_made = dispatched

\* a multi-round turn that ended in success after several dispatches
C6_Witness ==
    /\ turn.mode = "chat"
    /\ pc = "done"
    /\ chatResult.status = "success"
    /\ dispatched >= 3
    /\ iter >= 2

\* C7: once a tool call has returned requires_approval the turn is over: the
\* adapter has returned the interrupt naming that call and its arguments, and
\* no dispatch, provider request or feed of a tool result came after it.
C7_ApprovalHaltsTurn ==
    lastTool.res.status = "requires_approval" =>
        /\ pc = "done"
        /\ chatResult.status = "requires_approval"
        /\ chatResult.tool_name = lastTool.call.name
        /\ chatResult.pending_args = lastTool.call.args
        /\ chatResult.risk_description # ""
        /\ chatResult.risk_description \in {lastTool.res.risk, "High-risk operation detected"}
        /\ afterApproval = 0
        /\ fed < dispatched

\* approval returned by a call that is neither the first nor the last of its
\* round: one result was already collected, one call is left undispatched
C7_Witness ==
    /\ lastTool.res.status = "requires_approval"
    /\ Len(tool_results) >= 1
    /\ Len(pending) >= 2
    /\ chatResult.status = "requires_approval"

\* C8: plain conversation through POST /chat (execute = false, provider
\* available) sends exactly one provider request, without tool definitions,
\* and never invokes the sandbox.
C8_PlainChatOneRequestNoTools ==
    (turn.mode = "simple_chat" /\ pc = "done" /\ chatResult.kind # "unavailable") =>
        (requests = 1 /\ toolRequests = 0 /\ dispatched = 0)

(***************************************************************************)
(* Properties of session compaction (checked under SessionSpec).           *)
(***************************************************************************)
\* the last operation appended a message that made the session exceed the
\* threshold
AppendExceeded == lastAppend # NoAppend /\ Len(lastAppend.before) > MAX_MESSAGES

\* number of non-system messages left by the append c
KeptCount(c) == Len(c.after) - Len(SystemMsgs(c.before)) - 1

\* C9: when an append makes a session exceed the threshold, the session it
\* leaves is: the system messages that were present, in order; one synthetic
\* system message stating the number of non-system messages removed; the most
\* recent half (up to rounding) of the non-system messages, unchanged and in
\* order.
C9_CompactionShape ==
    AppendExceeded =>
        LET before == lastAppend.before
            after == lastAppend.after
            sys == SystemMsgs(before)
            chat == ChatMsgs(before)
            kept == KeptCount(lastAppend)
        IN  /\ kept >= 0
            /\ kept <= Len(chat)
            /\ SubSeq(after, 1, Len(sys)) = sys
            /\ after[Len(sys) + 1] = SummaryMsg(Len(chat) - kept)
            /\ SubSeq(after, Len(sys) + 2, Len(after))
                   = SubSeq(chat, Len(chat) - kept + 1, Len(chat))
            /\ 2 * kept \in {Len(chat) - 1, Len(chat), Len(chat) + 1}

\* a compaction of a session that was compacted before and also holds a
\* system-role message between chat messages
C9_Witness ==
    /\ AppendExceeded
    /\ \E i \in DOMAIN lastAppend.before :
           lastAppend.before[i].content.kind = "summary"
    /\ \E i \in DOMAIN lastAppend.before :
           /\ i > 1
           /\ lastAppend.before[i].role = "system"
           /\ lastAppend.before[i - 1].role # "system"
    /\ conversations["s1"] = lastAppend.after

\* C10: every compaction leaves the session with strictly fewer messages
\* than it had.
C10_CompactionShrinks ==
    AppendExceeded => Len(lastAppend.after) < Len(lastAppend.before)

\* C11: when an append has returned, the session holds at most MAX_MESSAGES
\* messages, however many appends came before.
C11_HistoryBounded ==
    \A sid \in DOMAIN conversations : Len(conversations[sid]) <= MAX_MESSAGES

\* C12: a session holds at most one system-role message, and that one is
\* its first message; also after compaction.
C12_SingleLeadingSystem ==
    \A sid \in DOMAIN conversations :
        \A i \in DOMAIN conversations[sid] : IsSystem(conversations[sid][i]) => i = 1

(***************************************************************************)
(* Properties of concurrent requests (checked under ServerSpec).           *)
(***************************************************************************)
\* the history the table holds for the session of request r
Stored(r) ==
    IF reqs[r].sid \in DOMAIN conversations THEN conversations[reqs[r].sid] ELSE <<>>

Occurrences(seq, m) == Cardinality({i \in DOMAIN seq : seq[i] = m})

IsIn(seq, m) == \E i \in DOMAIN seq : seq[i] = m

\* C13: every append_message call that has returned left its message in the
\* session, exactly once, whatever other appends to the same session were
\* under way, compaction included.
C13_ConcurrentAppendsBothKept ==
    \A r \in Requests :
        /\ reqs[r].appended >= 1 => Occurrences(Stored(r), UserMsgOf(r)) = 1
        /\ reqs[r].appended >= 2 => Occurrences(Stored(r), AssistantMsgOf(r)) = 1

\* two requests on one session that were in the server at the same time have
\* both appended their messages, and one of the appends compacted the session
C13_Witness ==
    \E a, b \in Requests :
        /\ a \in reqs[b].overlap
        /\ reqs[a].appended = 2
        /\ reqs[b].appended = 2
        /\ listGen[reqs[b].sid] >= 1

\* C14: of two /chat requests on one session, the one that appends second
\* built its prompt from a history holding the first one's user and assistant
\* message, and the stored history keeps each turn's two messages adjacent.
C14_ChatTurnsSerialized ==
    /\ \A a, b \in Requests :
           (/\ reqs[a].sid = reqs[b].sid
            /\ reqs[a].ticket > 0
            /\ reqs[b].ticket > reqs[a].ticket)
           => (IsIn(reqs[b].prompt, UserMsgOf(a)) /\ IsIn(reqs[b].prompt, AssistantMsgOf(a)))
    /\ \A r \in Requests :
           reqs[r].appended = 2 =>
               \E i \in DOMAIN Stored(r) :
                   /\ i + 1 \in DOMAIN Stored(r)
                   /\ Stored(r)[i] = UserMsgOf(r)
                   /\ Stored(r)[i + 1] = AssistantMsgOf(r)

\* the second request arrived while the first was in its handler, and both
\* have appended
C14_Witness ==
    \E a, b \in Requests :
        /\ a \in reqs[b].overlap
        /\ reqs[a].at \notin {"arrived"}
        /\ reqs[a].ticket > 0
        /\ reqs[b].ticket > reqs[a].ticket
        /\ reqs[b].appended = 2

\* C15: while a request waits on the provider or on a skill subprocess, a
\* request on another session id that has arrived can start.
C15_OtherSessionNotBlocked ==
    \A a, b \in Requests :
        (/\ Blocked(a)
         /\ reqs[b].at = "arrived"
         /\ reqs[b].sid \in ServerSessionIds
         /\ reqs[b].sid # reqs[a].sid)
        => ENABLED HandlerStart(b)

(***************************************************************************)
(* Properties of the skill registry (checked under RegistrySpec).          *)
(***************************************************************************)
\* C16: a reader of the table that runs during a rescan sees the table as it
\* was before the rescan or as the rescan leaves it, never another one.
C16_ReaderSeesWholeTable ==
    observed.during => observed.table \in {observed.pre, observed.post}

\* C17: when a scan has completed, the table holds exactly the directories
\* on disk whose manifest is valid.
C17_TableMatchesDisk ==
    justScanned => Registered(skills) = {d \in SkillDirs : disk[d].state = "valid"}

\* C18: a scan that completes with the disk unchanged since the scan before
\* it leaves the table that scan left: the same ids, the same hash per id.
C18_RescanIdempotent ==
    (justScanned /\ lastScan.n >= 2 /\ lastScan.clean) => lastScan.same

(***************************************************************************)
(* Properties of run_script's child and temp file (under SandboxSpec).     *)
(***************************************************************************)
\* C19: whatever the outcome of a run (success, non-zero exit, timeout,
\* security violation, exception), the temp argument file created for it
\* does not exist when the call returns.
C19_TempFileRemoved ==
    call.op = "execute" => tempFile \in {"none", "removed"}

SpawnsIn(log) == Cardinality({i \in DOMAIN log : log[i].op = "spawn"})

\* C20: a child that runs past the timeout has been killed when the call
\* returns, the result is the timeout one, its status is not that of a
\* non-zero exit, and the script was spawned once.
C20_TimeoutKillsAndReports ==
    /\ (call.op = "execute" /\ result.kind = "timeout")
          => /\ child = "killed"
             /\ result.status = "error"
             /\ SpawnsIn(accessLog) = 1
    /\ (call.op = "execute" /\ result.status = "failed") => result.kind = "nonzero"
    /\ child = "killed" => result.kind = "timeout"

C20_Witness ==
    /\ call.op = "execute"
    /\ result.kind = "timeout"
    /\ child = "killed"
    /\ tempFile = "removed"

\* C21: when the child exited within the timeout, the result is the success
\* one, carrying the trimmed standard output, exactly when the exit code is
\* 0; otherwise it is the failed one, carrying the standard output and the
\* standard error that were captured (both trimmed) and the exit code.
C21_ExitCodeDecides ==
    (call.op = "execute" /\ child = "exited")
       => /\ result.status = "success" <=> call.proc.returncode = 0
          /\ call.proc.returncode = 0
                => payload = [output |-> Strip(call.proc.stdout), exit_code |-> 0]
          /\ call.proc.returncode # 0
                => /\ result.status = "failed"
                   /\ payload.stdout = Strip(call.proc.stdout)
                   /\ payload.stderr = Strip(call.proc.stderr)
                   /\ payload.exit_code = call.proc.returncode

C21_Witness ==
    /\ call.op = "execute"
    /\ child = "exited"
    /\ result.status = "failed"
    /\ payload.exit_code = -9
    /\ payload.stdout = <<"o", "k">>
    /\ payload.stderr = <<"e", "r", "r">>

\* the variant of the result taxonomy a returned dict stands for
Variant(kind) ==
    CASE kind \in {"output", "knowledge_guide"} -> "Success"
      [] kind = "nonzero" -> "Failed"
      [] kind = "timeout" -> "Timeout"
      [] kind = "permission" -> "SecurityViolation"
      [] kind \in {"skill_not_found", "script_not_found"} -> "NotFound"
      [] OTHER -> "InternalError"

\* C22: the status tag of a run's result determines its variant: any run on
\* the same disk that returns the tag just returned stands for the variant
\* just returned.
C22_TagDeterminesVariant ==
    call.op = "execute"
       => \A id \in SkillIds, o \in ChildOutcomes :
             \A proc \in ChildRuns(o) :
                LET r == ExecuteToolCallResult(fs, id, o, FALSE, proc)
                IN  r.status = result.status => Variant(r.kind) = Variant(result.kind)

\* C23: no call of the sandbox lets an exception reach its caller: whatever
\* the input, the caller gets a returned result.
C23_SandboxNeverRaises ==
    call.op # "none" => result.status # "raised"

(***************************************************************************)
(* Properties of the adapters' error handling (under AdapterSpec).         *)
(***************************************************************************)
\* C24: once a provider request of a turn has raised, the turn is over with
\* a result of status "error", and it has sent no provider request and made
\* no sandbox call since.
C24_ProviderErrorEndsTurn ==
    raised.seen
       => /\ pc = "done"
          /\ chatResult.status = "error"
          /\ requests = raised.requests
          /\ dispatched = raised.dispatched

C24_Witness ==
    /\ raised.seen
    /\ turn.mode = "chat"
    /\ raised.requests >= 3
    /\ raised.dispatched >= 2
    /\ chatResult.status = "error"

(***************************************************************************)
(* Properties of a /chat turn that fails (under ServerSpec).               *)
(***************************************************************************)
\* C25: when a /chat turn ends with an adapter result whose status is not
\* success, the messages of its session are those the turn found: the
\* history it handed to the adapter, without the user message of the turn.
C25_FailedTurnKeepsHistory ==
    [][\A r \in Requests :
          (/\ reqs[r].at # "done"
           /\ reqs'[r].at = "done"
           /\ reqs'[r].kind \in {"chat", "agent"}
           /\ reqs'[r].result # "success")
             => SessionView(conversations', reqs[r].sid)
                   = SubSeq(reqs[r].prompt, 1, Len(reqs[r].prompt) - 1)]_vars

C25_Witness ==
    \E r \in Requests :
        /\ reqs[r].at = "done"
        /\ reqs[r].kind = "agent"
        /\ reqs[r].result = "requires_approval"
        /\ Len(reqs[r].prompt) > 3
        /\ SessionView(conversations, reqs[r].sid)
              = SubSeq(reqs[r].prompt, 1, Len(reqs[r].prompt) - 1)

\* C26: a run of a skill whose directory holds a (readable) SKILL.md and no
\* scripts/main.py returns the guide result: status success, the text of
\* that SKILL.md as the guide, and no child process was spawned.
C26_KnowledgeGuide ==
    LET home == Abs(skills_home)
        script_path == PJoin(PJoin(home, call.id), Rel(<<NmScripts, NmMainPy>>)).parts
        skill_md_path == PJoin(PJoin(home, call.id), Rel(<<NmSkillMd>>)).parts
    IN  (/\ call.op = "execute"
         /\ call.fault = "none"
         /\ PathExists(fs, skill_md_path)
         /\ ~PathExists(fs, script_path))
           => /\ result.status = "success"
              /\ DOMAIN payload = {"type", "skill", "message", "guide"}
              /\ payload.type = "knowledge_guide"
              /\ payload.skill = call.id
              /\ payload.guide = ReadText(skill_md_path)
              /\ SpawnsIn(accessLog) = 0
              /\ child = "none"
              /\ tempFile = "none"

C26_Witness ==
    /\ call.op = "execute"
    /\ call.fault = "none"
    /\ call.id = Rel(<<NmBeta>>)
    /\ result.kind = "knowledge_guide"
    /\ payload.guide = ReadText(skills_home \o <<NmBeta, NmSkillMd>>)
    /\ SpawnsIn(accessLog) = 0

(***************************************************************************)
(* Properties of flush and clear (under SessionSpec).                      *)
(***************************************************************************)
\* C27: a flush leaves the table of sessions as it was (what it does is
\* append to MEMORY.md), and a second flush right after it leaves the table
\* the first one left.
C27_FlushKeepsSessions ==
    [][\A sid \in SessionIds :
          FlushConversation(sid)
             => /\ conversations' = conversations
                /\ nextContent' = nextContent
                /\ FlushedTable(conversations', sid) = conversations']_vars

C27_Witness ==
    \E sid \in DOMAIN conversations :
        /\ lastAppend = NoAppend
        /\ Len(conversations[sid]) > 2
        /\ memoryTail = <<[kind |-> "transcript", n |-> Len(ChatMsgs(conversations[sid]))]>>

\* C28: a clear writes the transcript of the session to MEMORY.md as a flush
\* of the session it found does, the session is then gone from the table,
\* and a get-or-create of the id after it yields a list with none of the
\* earlier messages.
C28_ClearFlushesThenDiscards ==
    [][\A sid \in SessionIds :
          ClearConversation(sid)
             => /\ memoryTail' = FlushLog(conversations, sid)
                /\ sid \notin DOMAIN conversations'
                /\ \A p \in BOOLEAN :
                      Created(conversations', sid, p)[sid] \in {<<>>, <<SystemPrompt>>}]_vars

C28_Witness ==
    \E sid \in SessionIds :
        /\ sid \notin DOMAIN conversations
        /\ nextContent = 1
        /\ memoryTail # <<>>
        /\ memoryTail[1].kind = "transcript"
        /\ memoryTail[1].n >= 2

(***************************************************************************)
(* Dynamic tool injection                                                  *)
(***************************************************************************)

\* the name a tool definition carries, in any of the three formats
NameOf(tool) == IF "function" \in DOMAIN tool THEN tool.function.name ELSE tool.name

ReturnedNames == {NameOf(selection.tools[k]) : k \in 1..Len(selection.tools)}

\* the tool at position i of the registry's list shares a normalized keyword
\* with the query
SharesKeyword(i) ==
    \E w \in Keywords(lexicon, user_query) : w \in Keywords(lexicon, GetToolText(all_tools[i]))

MatchedPositions == {i \in 1..Len(all_tools) : SharesKeyword(i)}

\* C29 as the specification states it: every tool that shares at least one
\* normalized keyword with the query is present in the result of the
\* selection, whatever the query, the tool list and max.
C29_RelevantNeverDropped ==
    selection.op # "none"
        => LET returned == ReturnedNames
           IN  \A i \in MatchedPositions : NameOf(all_tools[i]) \in returned

\* C29, amended: a tool that shares a normalized keyword with the query is
\* present in the result when it is among the first max such tools in
\* discovery order; in particular none is dropped when at most max tools
\* share a keyword with the query.
C29_RelevantKeptWithinMax ==
    selection.op # "none"
        => LET returned == ReturnedNames
               M == MatchedPositions
           IN  \A i \in M : Cardinality({j \in M : j <= i}) <= max_tools
                               => NameOf(all_tools[i]) \in returned

\* select ran on a list with tools that share a keyword and tools that do
\* not, exactly max of the first kind: all of the first kind were returned
C29_Witness ==
    /\ selection.op = "select_relevant_tools"
    /\ Len(all_tools) > max_tools
    /\ LET M == MatchedPositions
       IN  /\ Cardinality(M) = max_tools
           /\ \A i \in M : NameOf(all_tools[i]) \in ReturnedNames

\* the size of the intersection of the tool's keywords with the query's
OverlapScore(i) ==
    Cardinality(Keywords(lexicon, user_query) \cap Keywords(lexicon, GetToolText(all_tools[i])))

\* C30: select(query, allTools, max) returns a duplicate-free list of at most
\* max tools: the tools that share a normalized token with the query, in
\* discovery order, cut to the first max when max or more of them matched;
\* and, only when fewer than max matched, after them the unmatched tools in
\* descending overlap score, ties in discovery order, until max is reached.
C30_SelectResult ==
    selection.op = "select_relevant_tools"
        => LET R == selection.tools
               n == Len(all_tools)
               M == MatchedPositions
               m == Cardinality(M)
               score == [i \in 1..n |-> OverlapScore(i)]
               Before(i, j) == score[i] > score[j] \/ (score[i] = score[j] /\ i < j)
               pos == [k \in 1..Len(R) |-> CHOOSE i \in 1..n : all_tools[i] = R[k]]
               unmatched == (1..n) \ M
           IN  /\ Len(R) <= max_tools
               /\ \A k \in 1..Len(R) : \E i \in 1..n : all_tools[i] = R[k]
               /\ \A k, l \in 1..Len(R) : R[k] = R[l] => k = l
               /\ IF m >= max_tools
                  THEN /\ Len(R) = max_tools
                       /\ \A k \in 1..Len(R) :
                              /\ pos[k] \in M
                              /\ Cardinality({j \in M : j < pos[k]}) = k - 1
                  ELSE /\ Len(R) = (IF n < max_tools THEN n ELSE max_tools)
                       /\ \A k \in 1..Len(R) :
                              IF k <= m
                              THEN /\ pos[k] \in M
                                   /\ Cardinality({j \in M : j < pos[k]}) = k - 1
                              ELSE /\ pos[k] \in unmatched
                                   /\ Cardinality({j \in unmatched : Before(j, pos[k])}) = k - m - 1

\* select returned matched tools followed by some, not all, of the unmatched
\* ones
C30_Witness ==
    /\ selection.op = "select_relevant_tools"
    /\ Len(selection.tools) = max_tools
    /\ Len(all_tools) > max_tools
    /\ LET m == Cardinality(MatchedPositions) IN m >= 1 /\ m < max_tools

(***************************************************************************)
(* The tool-calling loop of the adapters                                   *)
(***************************************************************************)

\* the step sends a provider request of a tool-calling turn that is not the
\* turn's first
NextRequestSent ==
    /\ turn.mode = "chat"
    /\ turn' = turn
    /\ requests >= 1
    /\ requests' = requests + 1

\* C31: in each round of a tool-calling chat every tool call the provider
\* emitted in the response is dispatched to the sandbox once, in the order
\* emitted, before the next provider request is sent: a dispatch takes the
\* first call not yet dispatched, and the next request is sent only when no
\* emitted call is left (a round halted by requires_approval sends none).
C31_EveryCallDispatched ==
    [][/\ dispatched' = dispatched + 1
           => /\ pending # <<>>
              /\ lastTool'.call = Head(pending)
              /\ pc' # "done" => pending' = Tail(pending)
       /\ NextRequestSent => pending = <<>>]_vars

\* the turn ran all MAX_ITERATIONS iterations of the loop and the provider's
\* last response still asked for tools
CapReached ==
    /\ pc = "done"
    /\ turn.mode = "chat"
    /\ iter = MAX_ITERATIONS
    /\ turn.adapter = "gemini" => pending # <<>>

\* C32: when the iteration cap is reached while the provider is still
\* requesting tool calls, the adapter returns status success with content
\* noting that the cap was hit, and tool_calls_made counts the calls
\* dispatched so far.
C32_CapNoted ==
    CapReached => /\ chatResult.status = "success"
                  /\ chatResult.kind = "cap"
                  /\ chatResult.tool_calls_made = dispatched

\* the statuses of the Failed, Timeout, NotFound and SecurityViolation results
FailureStatuses == {"failed", "error", "security_violation"}

\* C33: a tool call whose result is Failed, Timeout, SecurityViolation or
\* NotFound does not end the turn: the result is collected as that call's
\* tool result (Gemini sends it back at once), and every result collected
\* has been handed to the provider-native history when the next provider
\* request is sent.
C33_FailedCallFedBack ==
    [][/\ (dispatched' = dispatched + 1 /\ lastTool'.res.status \in FailureStatuses)
           => /\ pc' # "done"
              /\ chatResult' = chatResult
              /\ turn.adapter \in {"claude", "openai"}
                     => tool_results' = Append(tool_results, lastTool'.res.status)
              /\ turn.adapter = "gemini" => pc' = "send"
       /\ NextRequestSent => fed' = dispatched']_vars

\* a call failed, its result went into the history and another provider
\* request followed
C33_Witness ==
    /\ turn.mode = "chat"
    /\ lastTool.res.status \in FailureStatuses
    /\ dispatched >= 1
    /\ fed = dispatched
    /\ requests >= 2

(***************************************************************************)
(* Cross-provider fallback                                                 *)
(***************************************************************************)

\* how many messages of the role carry the content n
MessageCount(history, role, n) ==
    Cardinality({i \in 1..Len(history) : history[i] = AgentMsg(role, n)})

\* C34: after a turn completed through fallback the conversation history
\* is the history the failed attempt started from, followed by the user's
\* utterance, once, and the assistant reply: the failed attempt contributed
\* no message.
C34_FallbackSameHistory ==
    agent.via = "fallback"
        => /\ conversation_history =
                  agent.started \o <<AgentMsg("user", agent.turn_count),
                                     AgentMsg("assistant", agent.turn_count)>>
           /\ MessageCount(conversation_history, "user", agent.turn_count) = 1

(***************************************************************************)
(* The first provider request of an agent-mode turn                        *)
(***************************************************************************)

\* the user and assistant messages a request conveys, a folded prompt
\* counted by its lines
Conveyed(request) ==
    LET Lines(m) == IF m.content.lines # <<>> THEN m.content.lines
                    ELSE <<ChatMessage(m.role, [m.content EXCEPT !.reference = FALSE])>>
        Flat[k \in 0..Len(request)] ==
            IF k = 0 THEN <<>> ELSE Flat[k - 1] \o Lines(request[k])
    IN  WithoutSystem(Flat[Len(request)])

\* C35: in agent mode the first provider request of a turn carries the
\* session's prior messages followed by the latest user utterance, for
\* every provider adapter.
C35_FirstRequestCarriesHistory ==
    handoff.sent
        => Conveyed(handoff.request)
               = WithoutSystem(handoff.history) \o <<ChatMessage("user", handoff.utterance)>>


\* a sandbox run of the skill id `id` has just been made
RunOf(id) == /\ sandboxVars' # sandboxVars
             /\ call'.op = "execute"
             /\ call'.id = id

\* C36: a run for a skill id that is absent from the registry's current
\* table (here: popped by an update, or cleared by a rescan in progress)
\* yields NotFound and spawns no process.
C36_OnlyTableIdsRun ==
    [][\A d \in SkillDirs :
           (RunOf(SkillIdOf(d)) /\ ~GetSkill(skills, SkillIdOf(d)))
               => /\ result'.kind = "skill_not_found"
                  /\ ~Spawned(accessLog')
                  /\ child' = "none"]_vars


\* append_message has just run on its own, on session sid
AppendedTo(sid) == /\ directAppends' = directAppends + 1
                   /\ sid \in SessionIds

\* the message that call appended
Appended == lastAppend'.before[Len(lastAppend'.before)]

\* C37: append_message on a session id that is not in the table creates the
\* session, and the appended message is in the history a following
\* get_or_create_conversation(id) returns.
C37_AppendCreatesSession ==
    [][\A sid \in SessionIds :
           (AppendedTo(sid) /\ sid \notin DOMAIN conversations)
               => /\ sid \in DOMAIN conversations'
                  /\ \A p \in BOOLEAN :
                         LET history == Created(conversations', sid, p)[sid]
                         IN  \E i \in DOMAIN history : history[i] = Appended]_vars


\* C38: every argument of the serialized map on stdin and in the temp file
\* is in the environment as SKILL_PARAM_<KEY> with its str() value, also for
\* keys that differ only in letter case.
C38_ChannelsAgree ==
    channels.prepared =>
        /\ channels.file = channels.stdin
        /\ \A i \in 1..Len(channels.stdin) :
               LET key == channels.stdin[i][1]
               IN  /\ channels.stdin[i][2] = channels.args[i][2].json
                   /\ EnvName(key) \in DOMAIN channels.env
                   /\ channels.env[EnvName(key)] = channels.args[i][2].str


\* the child was waited for: communicate() returned with its exit status
Reaped(fate) == fate = "exited"

\* C39: a child that run_script spawned has terminated and been reaped when
\* run_script returns, on the timeout path too.
C39_ChildReaped ==
    (call.op = "execute" /\ Spawned(accessLog) /\ child # "none") => Reaped(child)


\* a tool-calling turn is under way
ChatTurnRunning == turn.mode = "chat" /\ pc # "done"

\* chat() has returned its dict
ChatTurnReturned == /\ turn.mode = "chat"
                    /\ pc = "done"
                    /\ chatResult.status \in {"success", "error", "requires_approval"}

\* C40: every tool-calling chat turn returns a result after finitely many
\* steps, whatever the provider answers and the tools return; the loop never
\* runs more than MAX_ITERATIONS iterations, and every provider request after
\* the second is counted as an iteration, whatever its tool call returned.
C40_TurnTerminates ==
    /\ [](iter <= MAX_ITERATIONS /\ (turn.mode = "chat" => requests <= iter + 2))
    /\ ChatTurnRunning ~> ChatTurnReturned

\* a turn ran the loop to its last iteration, a tool call having failed on
\* the way, and returned
C40_Witness ==
    /\ ChatTurnReturned
    /\ iter = MAX_ITERATIONS
    /\ dispatched >= MAX_ITERATIONS
    /\ lastTool.res.status = "error"

====
